---- MODULE Spec2Model ----
(***************************************************************************)
(* Velocity AI frontend: credential resolution (getAuthToken), the request *)
(* gateway (apiRequest) and the no-op authentication context.              *)
(*                                                                         *)
(* JavaScript values are modelled as records tagged with a `type` field;   *)
(* the two Web Storage areas are partial functions from key to raw string. *)
(***************************************************************************)
EXTENDS Integers, Sequences, FiniteSets, TLC

VARIABLES
    localStorage,     \* window.localStorage: key -> raw string (partial)
    sessionStorage,   \* window.sessionStorage: key -> raw string (partial)
    calls,            \* apiRequest invocations, in the order they were made
    network,          \* requests handed to fetch(), in the order issued
    lastAuthCall,     \* the last AuthContext function called and what it returned
    location,         \* the router's current path
    mode,             \* ModeContext: the held mode
    conversations,    \* synchronizer: the local conversation list
    activeId,         \* synchronizer: the active conversation id, 0 when none
    messages,         \* synchronizer: the local messages, each tagged with its conversation
    ops,              \* the remote operations started, in flight and finished
    lastError,        \* synchronizer: the message of the last error handed to the caller
    entries,          \* AIActivityLog: the entries shown
    loading,          \* AIActivityLog: the loading flag
    integrations,     \* IntegrationsPage: the integration status list
    isLoading,        \* IntegrationsPage: the loading flag
    loadError,        \* IntegrationsPage: the `error` state
    success,          \* IntegrationsPage: the `success` state
    bypassLogin,      \* APP_CONFIG.dev.bypassLogin
    authProvider,     \* whether App wraps its routes in AuthProvider and ProtectedRoute
    auth,             \* what useAuth() reports
    shown,            \* what the router renders at the current path
    projectId,        \* ProjectDetailPage: the route parameter, "" when absent
    projectData,      \* ProjectDetailPage: the `data` state
    projectError,     \* ProjectDetailPage: the `error` state
    projectLoading    \* ProjectDetailPage: the `loading` state

credVars == <<localStorage, sessionStorage>>
gwVars   == <<calls, network>>
authVars == <<lastAuthCall, location>>
syncVars == <<conversations, activeId, messages, ops, lastError>>
viewVars == <<entries, loading, integrations, isLoading, loadError>>
pageVars == <<mode, syncVars, viewVars>>
routeVars  == <<bypassLogin, authProvider, auth, shown>>
detailVars == <<projectId, projectData, projectError, projectLoading>>
moreVars   == <<success, routeVars, detailVars>>
vars     == <<localStorage, sessionStorage, calls, network, lastAuthCall, location,
             mode, conversations, activeId, messages, ops, lastError,
             entries, loading, integrations, isLoading, loadError, success,
             bypassLogin, authProvider, auth, shown,
             projectId, projectData, projectError, projectLoading>>

(***************************************************************************)
(* Bounds                                                                  *)
(***************************************************************************)
MaxCalls == 2

(***************************************************************************)
(* JavaScript values                                                       *)
(***************************************************************************)
JUndefined == [type |-> "undefined"]
JNull      == [type |-> "null"]
JString(s) == [type |-> "string", str |-> s]
JObject(f) == [type |-> "object", fields |-> f]
JNumber(n) == [type |-> "number", num |-> n]
JArray(s)  == [type |-> "array", items |-> s]

EmptyFn == [k \in {} |-> JNull]

\* JS truthiness, as used by `if (localUser)`, `parsed.token || null`, `if (token)`
Truthy(v) ==
    /\ v.type \notin {"undefined", "null"}
    /\ ~(v.type = "string" /\ v.str = "")

(***************************************************************************)
(* The JSON texts the remote service answers with, each with the value it  *)
(* parses to.                                                              *)
(***************************************************************************)
ConvIds == {1, 2}
Titles  == {"A", "B"}

\* interface Conversation {id, title, owner_id, ...}
ConversationValue(id, title) ==
    JObject(("id" :> JNumber(id)) @@ ("title" :> JString(title))
            @@ ("owner_id" :> JNumber(1)))
ConversationText(id, title) ==
    "{\"id\":" \o ToString(id) \o ",\"title\":\"" \o title \o "\",\"owner_id\":1}"

\* interface ChatResponse {response, conversation_id: string, ...}
ChatValue(id) ==
    JObject(("response" :> JString("hi")) @@ ("conversation_id" :> JString(ToString(id)))
            @@ ("requires_approval" :> JString("false")))
ChatText(id) ==
    "{\"response\":\"hi\",\"conversation_id\":\"" \o ToString(id)
        \o "\",\"requires_approval\":false}"

\* interface Message {id, conversation_id, role, content, ...}
MessageValue(id, conv, role) ==
    JObject(("id" :> JNumber(id)) @@ ("conversation_id" :> JNumber(conv))
            @@ ("role" :> JString(role)) @@ ("content" :> JString("old")))
MessageText(id, conv, role) ==
    "{\"id\":" \o ToString(id) \o ",\"conversation_id\":" \o ToString(conv)
        \o ",\"role\":\"" \o role \o "\",\"content\":\"old\"}"

\* the stored history of a conversation: nothing, or one earlier exchange
HistoryValue(conv) ==
    JArray(<<MessageValue(1, conv, "user"), MessageValue(2, conv, "assistant")>>)
HistoryText(conv) ==
    "[" \o MessageText(1, conv, "user") \o "," \o MessageText(2, conv, "assistant") \o "]"

\* interface ConversationList {conversations, total}
ServerLists ==
    { <<>>, <<[id |-> 1, title |-> "A"]>>,
      <<[id |-> 2, title |-> "B"], [id |-> 1, title |-> "A"]>> }

RECURSIVE JoinText(_)
JoinText(texts) ==
    IF texts = <<>> THEN ""
    ELSE IF Len(texts) = 1 THEN texts[1]
    ELSE texts[1] \o "," \o JoinText(Tail(texts))

ListValue(list) ==
    JObject(("conversations" :>
                JArray([n \in 1..Len(list) |-> ConversationValue(list[n].id, list[n].title)]))
            @@ ("total" :> JNumber(Len(list))))
ListText(list) ==
    "{\"conversations\":["
        \o JoinText([n \in 1..Len(list) |-> ConversationText(list[n].id, list[n].title)])
        \o "],\"total\":" \o ToString(Len(list)) \o "}"

\* interface ActivityLogEntry / IntegrationStatus: one-element lists
ActivityValue ==
    JArray(<<JObject(("id" :> JString("a1")) @@ ("action" :> JString("read"))
                     @@ ("source" :> JString("gmail")) @@ ("mode" :> JString("personal")))>>)
ActivityText ==
    "[{\"id\":\"a1\",\"action\":\"read\",\"source\":\"gmail\",\"mode\":\"personal\"}]"

StatusValue ==
    JArray(<<JObject(("service" :> JString("gmail")) @@ ("connected" :> JString("true"))),
             JObject(("service" :> JString("github")) @@ ("connected" :> JString("true")))>>)
StatusText ==
    "[{\"service\":\"gmail\",\"connected\":true},{\"service\":\"github\",\"connected\":true}]"

\* interface ProjectDetail: the project with its activities and priorities
ProjectIds == {"p1", "p2"}

ProjectValue(p) ==
    JObject(("project" :> JObject("id" :> JString(p)))
            @@ ("activities" :> JArray(<<>>)) @@ ("priorities" :> JArray(<<>>)))
ProjectText(p) ==
    "{\"project\":{\"id\":\"" \o p \o "\"},\"activities\":[],\"priorities\":[]}"

ServiceTexts ==
    { [raw |-> ConversationText(id, t), val |-> ConversationValue(id, t)] :
          id \in ConvIds, t \in Titles }
    \cup { [raw |-> ChatText(id), val |-> ChatValue(id)] : id \in ConvIds }
    \cup { [raw |-> HistoryText(c), val |-> HistoryValue(c)] : c \in ConvIds }
    \cup { [raw |-> ListText(l), val |-> ListValue(l)] : l \in ServerLists }
    \cup { [raw |-> "[]", val |-> JArray(<<>>)],
            [raw |-> ActivityText, val |-> ActivityValue],
            [raw |-> StatusText, val |-> StatusValue] }
    \cup { [raw |-> ProjectText(p), val |-> ProjectValue(p)] : p \in ProjectIds }

(***************************************************************************)
(* JSON.parse on the raw texts the model uses.  `threw` is a SyntaxError.  *)
(***************************************************************************)
ParseOk(v) == [threw |-> FALSE, val |-> v]
ParseThrew == [threw |-> TRUE, val |-> JUndefined]

JSONParse(raw) ==
    CASE raw = "null"                      -> ParseOk(JNull)
      [] raw = "{}"                        -> ParseOk(JObject(EmptyFn))
      [] raw = "{\"token\":\"\"}"          -> ParseOk(JObject("token" :> JString("")))
      [] raw = "{\"token\":\"t1\"}"        -> ParseOk(JObject("token" :> JString("t1")))
      [] raw = "{\"token\":\"t2\"}"        -> ParseOk(JObject("token" :> JString("t2")))
      [] raw = "{\"detail\":\"Not found\"}" ->
             ParseOk(JObject("detail" :> JString("Not found")))
      [] raw = "{\"detail\":\"Bad\",\"error_code\":\"E1\"}" ->
             ParseOk(JObject(("detail" :> JString("Bad")) @@ ("error_code" :> JString("E1"))))
      [] \E e \in ServiceTexts : e.raw = raw ->
             ParseOk((CHOOSE e \in ServiceTexts : e.raw = raw).val)
      [] raw = "{\"foo\":1}"               -> ParseOk(JObject("foo" :> JString("1")))
      [] OTHER                             -> ParseThrew

\* property read `v.k`: a TypeError on null/undefined, undefined when missing
PropThrows(v) == v.type \in {"null", "undefined"}
Prop(v, k) ==
    IF v.type = "object" /\ k \in DOMAIN v.fields THEN v.fields[k] ELSE JUndefined

(***************************************************************************)
(* Web Storage                                                             *)
(***************************************************************************)
USER_KEY == "velocity_ai_user"

getItem(store, key) ==
    IF key \in DOMAIN store THEN JString(store[key]) ELSE JNull

\* what a storage area may hold under the user key when the page loads
StoredPayloads ==
    { "", "{bad", "{}", "{\"token\":\"\"}", "{\"token\":\"t1\"}", "{\"token\":\"t2\"}" }

StorageContents == {EmptyFn} \cup { (USER_KEY :> p) : p \in StoredPayloads }

(***************************************************************************)
(* getAuthToken                                                            *)
(***************************************************************************)
\* try { parsed = JSON.parse(raw); return parsed.token || null } catch { return null }
tokenOf(raw) ==
    LET p == JSONParse(raw) IN
    IF p.threw \/ PropThrows(p.val) THEN JNull
    ELSE LET t == Prop(p.val, "token") IN IF Truthy(t) THEN t ELSE JNull

getAuthToken_sessionFirst ==
    LET localUser   == getItem(localStorage, USER_KEY)
        sessionUser == getItem(sessionStorage, USER_KEY)
    IN  IF Truthy(sessionUser) THEN tokenOf(sessionUser.str)
        ELSE IF Truthy(localUser) THEN tokenOf(localUser.str)
        ELSE JNull

getAuthToken ==
    LET localUser   == getItem(localStorage, USER_KEY)
        sessionUser == getItem(sessionStorage, USER_KEY)
    IN  IF Truthy(localUser) THEN tokenOf(localUser.str)
        ELSE IF Truthy(sessionUser) THEN tokenOf(sessionUser.str)
        ELSE JNull

(***************************************************************************)
(* apiRequest                                                              *)
(***************************************************************************)
API_BASE_URL == "http://localhost:8000"

\* the exported functions that call apiRequest, with the endpoint and the
\* RequestInit each one passes (none of them passes headers)
ApiCallers ==
    { [symbol |-> "getUserConversations", endpoint |-> "/api/conversations/1",
       method |-> "GET", headers |-> EmptyFn],
      [symbol |-> "deleteConversation", endpoint |-> "/api/conversations/1",
       method |-> "DELETE", headers |-> EmptyFn] }

\* `${...}` in a template literal
TemplateStr(v) == IF v.type = "string" THEN v.str ELSE v.type

Bearer(token) == "Bearer " \o TemplateStr(token)

RequestHeaders_alwaysAuth(optHeaders, token) ==
    ("Authorization" :> Bearer(token))
        @@ optHeaders @@ ("Content-Type" :> "application/json")

\* headers = {"Content-Type": ..., ...options.headers}; if (token) Authorization
RequestHeaders(optHeaders, token) ==
    LET headers == optHeaders @@ ("Content-Type" :> "application/json")
    IN  IF Truthy(token) THEN ("Authorization" :> Bearer(token)) @@ headers
        ELSE headers

fetch_twice(net, req) == Append(Append(net, req), req)

\* fetch(url, {...options, headers}): one request handed to the transport
fetch(net, req) == Append(net, req)

\* what the server may answer
Responses ==
    { [status |-> 200, body |-> "{\"conversations\":[],\"total\":0}"],
      [status |-> 200, body |-> "{\"foo\":1}"],
      [status |-> 200, body |-> ""],
      [status |-> 200, body |-> "{bad"],
      [status |-> 204, body |-> ""],
      [status |-> 404, body |-> "{\"detail\":\"Not found\"}"],
      [status |-> 400, body |-> "{\"detail\":\"Bad\",\"error_code\":\"E1\"}"],
      [status |-> 500, body |-> "<html>"],
      [status |-> 500, body |-> "{}"] }

\* Response.ok
ok(response) == response.status \in 200..299

NoError == [name |-> "", message |-> "", code |-> JUndefined]

\* `new Error(detail)`: the message is String(detail), "" for undefined; an
\* Error object has no `code` property
NewError(detail) ==
    [name |-> "Error",
     message |-> IF detail.type = "undefined" THEN "" ELSE TemplateStr(detail),
     code |-> JUndefined]

Resolved(v) == [pc |-> "resolved", result |-> v, error |-> NoError]
Rejected(e) == [pc |-> "rejected", result |-> JUndefined, error |-> e]

SyntaxError == [name |-> "SyntaxError", message |-> "Unexpected token", code |-> JUndefined]
TypeErrorNull ==
    [name |-> "TypeError", message |-> "Cannot read properties of null", code |-> JUndefined]
FailedToFetch == [name |-> "TypeError", message |-> "Failed to fetch", code |-> JUndefined]

apiRequestSettle_no204(response) ==
    LET p == JSONParse(response.body) IN
    IF ~ok(response) THEN
        LET error == IF p.threw
                     THEN JObject("detail" :>
                            JString("Request failed with status " \o ToString(response.status)))
                     ELSE p.val
        IN  IF PropThrows(error) THEN Rejected(TypeErrorNull)
            ELSE Rejected(NewError(Prop(error, "detail")))
    ELSE IF p.threw THEN Rejected(SyntaxError)
    ELSE Resolved(p.val)

\* the part of apiRequest after `await fetch(...)` has produced a response
apiRequestSettle(response) ==
    LET p == JSONParse(response.body) IN
    IF ~ok(response) THEN
        LET error == IF p.threw
                     THEN JObject("detail" :>
                            JString("Request failed with status " \o ToString(response.status)))
                     ELSE p.val
        IN  IF PropThrows(error) THEN Rejected(TypeErrorNull)
            ELSE Rejected(NewError(Prop(error, "detail")))
    ELSE IF response.status = 204 THEN Resolved(JUndefined)
    ELSE IF p.threw THEN Rejected(SyntaxError)
    ELSE Resolved(p.val)

NoResponse == [status |-> 0, body |-> ""]

\* a caller invokes apiRequest: the token is read, the headers are built and
\* the request is handed to fetch; the call then waits for the transport
ApiCall(c) ==
    /\ Len(calls) < MaxCalls
    /\ LET token   == getAuthToken
           headers == RequestHeaders(c.headers, token)
           req     == [call |-> Len(calls) + 1, url |-> API_BASE_URL \o c.endpoint,
                       method |-> c.method, headers |-> headers]
       IN  /\ network' = fetch(network, req)
           /\ calls' = Append(calls,
                  [caller |-> c.symbol, token |-> token, pc |-> "fetch",
                   response |-> NoResponse, result |-> JUndefined,
                   error |-> NoError, settled |-> 0])
    /\ UNCHANGED <<credVars, authVars, pageVars>>
    /\ UNCHANGED moreVars

\* the transport delivers a response and apiRequest runs to its end
FetchResolve(i, response) ==
    /\ i \in 1..Len(calls)
    /\ calls[i].pc = "fetch"
    /\ LET o == apiRequestSettle(response) IN
       calls' = [calls EXCEPT ![i].pc = o.pc, ![i].response = response,
                              ![i].result = o.result, ![i].error = o.error,
                              ![i].settled = @ + 1]
    /\ UNCHANGED <<network, credVars, authVars, pageVars>>
    /\ UNCHANGED moreVars

\* the transport is unreachable: fetch rejects and the rejection propagates
FetchReject(i) ==
    /\ i \in 1..Len(calls)
    /\ calls[i].pc = "fetch"
    /\ calls' = [calls EXCEPT ![i].pc = "rejected", ![i].error = FailedToFetch,
                              ![i].settled = @ + 1]
    /\ UNCHANGED <<network, credVars, authVars, pageVars>>
    /\ UNCHANGED moreVars

(***************************************************************************)
(* AuthContext (no-op) and the settings page's logout handler              *)
(***************************************************************************)
DEFAULT_USER ==
    [id |-> 1, email |-> "user@velocity.ai", name |-> "Velocity User", token |-> "local-dev"]

\* stands for `undefined` where a function returns no user
NoUser == [id |-> 0, email |-> "", name |-> "", token |-> ""]

AuthCall(op, rememberMe, returned) ==
    [op |-> op, rememberMe |-> rememberMe, returned |-> returned]

AuthReport(user, authLoading, isAuthenticated) ==
    [user |-> user, isLoading |-> authLoading, isAuthenticated |-> isAuthenticated]

useAuth_guestOutside(inProvider) ==
    IF inProvider THEN AuthReport(DEFAULT_USER, FALSE, TRUE)
    ELSE AuthReport(NoUser, FALSE, FALSE)

\* useAuth(): the provider's value, or the same default outside a provider
useAuth(inProvider) ==
    IF inProvider THEN AuthReport(DEFAULT_USER, FALSE, TRUE)
    ELSE AuthReport(DEFAULT_USER, FALSE, TRUE)

\* login: async () => DEFAULT_USER
login(email, password, rememberMe) ==
    /\ lastAuthCall' = AuthCall("login", rememberMe, DEFAULT_USER)
    /\ UNCHANGED <<credVars, gwVars, location, pageVars>>
    /\ UNCHANGED moreVars

\* signup: async () => DEFAULT_USER
signup(email, password) ==
    /\ lastAuthCall' = AuthCall("signup", FALSE, DEFAULT_USER)
    /\ UNCHANGED <<credVars, gwVars, location, pageVars>>
    /\ UNCHANGED moreVars

\* handleUpdateProfile -> updateProfile: async () => DEFAULT_USER
updateProfile(data) ==
    /\ location = "/settings"
    /\ lastAuthCall' = AuthCall("updateProfile", FALSE, DEFAULT_USER)
    /\ UNCHANGED <<credVars, gwVars, location, pageVars>>
    /\ UNCHANGED moreVars

\* handleLogout: logout() (which is () => {}), then navigate("/login")
handleLogout ==
    /\ location = "/settings"
    /\ lastAuthCall' = AuthCall("logout", FALSE, NoUser)
    /\ location' = "/login"
    /\ UNCHANGED <<credVars, gwVars, pageVars>>
    /\ UNCHANGED moreVars

\* <Route path="/login" element={<Navigate to="/chatbot" replace />} />
LoginRouteRedirect ==
    /\ location = "/login"
    /\ location' = "/chatbot"
    /\ UNCHANGED <<credVars, gwVars, lastAuthCall, pageVars>>
    /\ UNCHANGED moreVars

\* the user opens the settings page
OpenSettings ==
    /\ location = "/chatbot"
    /\ location' = "/settings"
    /\ UNCHANGED <<credVars, gwVars, lastAuthCall, pageVars>>
    /\ UNCHANGED moreVars

Emails    == {"a@example.com"}
Passwords == {"pw"}

(***************************************************************************)
(* ModeContext                                                             *)
(***************************************************************************)
MODE_STORAGE_KEY == "velocity_ai_mode"

AppMode == {"personal", "workspace"}

getStoredMode_trusting ==
    LET stored == getItem(localStorage, MODE_STORAGE_KEY) IN
    IF stored.type = "string" THEN stored.str ELSE "personal"

getStoredMode ==
    LET stored == getItem(localStorage, MODE_STORAGE_KEY) IN
    IF stored = JString("workspace") \/ stored = JString("personal") THEN stored.str
    ELSE "personal"

(***************************************************************************)
(* The exported API functions: the request each one hands to apiRequest    *)
(***************************************************************************)
ApiRequest(endpoint, method, body) ==
    [endpoint |-> endpoint, method |-> method, body |-> body]

sendChatMessage_noConversation(message, chatMode, conversationId) ==
    ApiRequest("/api/chat", "POST",
        JObject(("message" :> JString(message)) @@ ("mode" :> JString(chatMode))
                @@ ("conversation_id" :> JUndefined)))

sendChatMessage(message, chatMode, conversationId) ==
    ApiRequest("/api/chat", "POST",
        JObject(("message" :> JString(message)) @@ ("mode" :> JString(chatMode))
                @@ ("conversation_id" :> conversationId)))

createConversation(userId, title) ==
    ApiRequest("/api/conversations", "POST",
        JObject(("user_id" :> JNumber(userId)) @@ ("title" :> title)))

getUserConversations(userId) ==
    ApiRequest("/api/conversations/" \o ToString(userId), "GET", JUndefined)

getConversationMessages(conversationId) ==
    ApiRequest("/api/conversations/" \o ToString(conversationId) \o "/messages",
               "GET", JUndefined)

updateConversationTitle(conversationId, title) ==
    ApiRequest("/api/conversations/" \o ToString(conversationId), "PUT",
        JObject("title" :> JString(title)))

deleteConversation(conversationId) ==
    ApiRequest("/api/conversations/" \o ToString(conversationId), "DELETE", JUndefined)

\* apiRequest<ProjectDetail>(`/api/projects/${projectId}`)
getProjectDetail(id) == ApiRequest("/api/projects/" \o id, "GET", JUndefined)

getIntegrationStatus == ApiRequest("/api/integrations/status", "GET", JUndefined)

\* const query = mode ? `?mode=${mode}` : ""
getActivityLog(logMode) ==
    ApiRequest("/api/activity-log"
                   \o (IF Truthy(logMode) THEN "?mode=" \o TemplateStr(logMode) ELSE ""),
               "GET", JUndefined)

\* apiRequest up to its `await fetch`: the request `r` of operation `i` goes out
Issue(net, i, r) ==
    fetch(net, [call |-> i, url |-> API_BASE_URL \o r.endpoint, method |-> r.method,
                headers |-> RequestHeaders(EmptyFn, getAuthToken), body |-> r.body])

\* what the transport may deliver: a response, or nothing when unreachable
Unreachable == [status |-> 0, body |-> "unreachable"]

FailureResponses ==
    { [status |-> 404, body |-> "{\"detail\":\"Not found\"}"],
      [status |-> 500, body |-> "<html>"],
      Unreachable }

\* apiRequest from `await fetch` on, for every delivery
Settle_ignoreStatus(response) ==
    IF response = Unreachable THEN Rejected(FailedToFetch)
    ELSE LET p == JSONParse(response.body) IN
         IF response.status = 204 THEN Resolved(JUndefined)
         ELSE IF p.threw THEN Rejected(SyntaxError)
         ELSE Resolved(p.val)

Settle(response) ==
    IF response = Unreachable THEN Rejected(FailedToFetch) ELSE apiRequestSettle(response)

Failed(response) == response = Unreachable \/ ~ok(response)

(***************************************************************************)
(* ConversationSynchronizer: the conversation list, the active selection   *)
(* and the message sequences, with the operations of its contract          *)
(***************************************************************************)
MaxOps == 2

Texts == {"hello"}

USER_ID == DEFAULT_USER.id

Op(kind, pc, conv, text, chatMode, title, prior) ==
    [kind |-> kind, pc |-> pc, conv |-> conv, text |-> text, mode |-> chatMode,
     title |-> title, prior |-> prior, response |-> NoResponse]

\* a local message: `lid` is the send that produced it (0 for a loaded one),
\* `sid` the id the service gave it (0 while it has none), `status` its delivery
Msg(lid, conv, role, status, content, sid) ==
    [lid |-> lid, conv |-> conv, role |-> role, status |-> status,
     content |-> content, sid |-> sid]

Ids(list) == { list[n].id : n \in DOMAIN list }

TitleOf(list, c) == list[CHOOSE n \in DOMAIN list : list[n].id = c].title

AddConversation_always(list, id, title) == Append(list, [id |-> id, title |-> title])

AddConversation(list, id, title) ==
    IF id \in Ids(list) THEN list ELSE Append(list, [id |-> id, title |-> title])

SetTitle(list, c, title) ==
    [n \in DOMAIN list |-> IF list[n].id = c THEN [list[n] EXCEPT !.title = title]
                           ELSE list[n]]

NumberOf(v) == IF v.type = "number" THEN v.num ELSE 0

\* Number(s) for the id texts the model uses
NumberFromString(v) ==
    IF v.type = "string" /\ \E n \in ConvIds : ToString(n) = v.str
    THEN CHOOSE n \in ConvIds : ToString(n) = v.str
    ELSE 0

ItemsOf(v) == IF v.type = "array" THEN v.items ELSE <<>>

IsOwn(m, i) == m.lid = i /\ m.role = "user"

Reconcile_moveToEnd(msgs, i, status, conv) ==
    LET own == SelectSeq(msgs, LAMBDA m : IsOwn(m, i)) IN
    SelectSeq(msgs, LAMBDA m : ~IsOwn(m, i))
        \o [n \in DOMAIN own |-> [own[n] EXCEPT !.status = status, !.conv = conv]]

\* the user message of send `i` gets a new status and conversation, in place
Reconcile(msgs, i, status, conv) ==
    [n \in DOMAIN msgs |->
        IF IsOwn(msgs[n], i) THEN [msgs[n] EXCEPT !.status = status, !.conv = conv]
        ELSE msgs[n]]

CreateResponses ==
    { [status |-> 200, body |-> ConversationText(k, "A")] : k \in ConvIds }
        \cup FailureResponses

ChatResponses ==
    { [status |-> 200, body |-> ChatText(k)] : k \in ConvIds } \cup FailureResponses

MessagesResponses(c) ==
    { [status |-> 200, body |-> "[]"], [status |-> 200, body |-> HistoryText(c)] }
        \cup FailureResponses

RenameResponses(c) ==
    { [status |-> 200, body |-> ConversationText(c, t)] : t \in Titles }
        \cup FailureResponses

DeleteResponses == { [status |-> 204, body |-> ""] } \cup FailureResponses

ListResponses ==
    { [status |-> 200, body |-> ListText(l)] : l \in ServerLists } \cup FailureResponses

\* send(userText, activeConversationId): the user message is shown at once as
\* pending; without an active conversation the create call goes first
SendMessage(userText) ==
    /\ Len(ops) < MaxOps
    /\ LET i == Len(ops) + 1 IN
       /\ messages' = Append(messages, Msg(i, activeId, "user", "pending", userText, 0))
       /\ IF activeId = 0
          THEN /\ network' = Issue(network, i, createConversation(USER_ID, JUndefined))
               /\ ops' = Append(ops, Op("send", "create", 0, userText, mode, "", ""))
          ELSE /\ network' = Issue(network, i,
                      sendChatMessage(userText, mode, JString(ToString(activeId))))
               /\ ops' = Append(ops, Op("send", "chat", activeId, userText, mode, "", ""))
    /\ UNCHANGED <<conversations, activeId, lastError>>
    /\ UNCHANGED <<credVars, calls, authVars, mode, viewVars>>
    /\ UNCHANGED moreVars

\* the create call of a send settles: its id is adopted and the chat call
\* goes out, or the send fails
SendCreated(i, response) ==
    /\ i \in 1..Len(ops)
    /\ ops[i].kind = "send" /\ ops[i].pc = "create"
    /\ LET o == Settle(response)
           k == NumberOf(Prop(o.result, "id"))
       IN  IF o.pc = "resolved"
           THEN /\ conversations' =
                       AddConversation(conversations, k, TemplateStr(Prop(o.result, "title")))
                /\ activeId' = k
                /\ messages' = Reconcile(messages, i, "pending", k)
                /\ network' = Issue(network, i,
                       sendChatMessage(ops[i].text, ops[i].mode, JString(ToString(k))))
                /\ ops' = [ops EXCEPT ![i].pc = "chat", ![i].conv = k,
                                      ![i].response = response]
                /\ UNCHANGED lastError
           ELSE /\ messages' = Reconcile(messages, i, "failed", ops[i].conv)
                /\ ops' = [ops EXCEPT ![i].pc = "failed", ![i].response = response]
                /\ lastError' = o.error.message
                /\ UNCHANGED <<conversations, activeId, network>>
    /\ UNCHANGED <<credVars, calls, authVars, mode, viewVars>>
    /\ UNCHANGED moreVars

AnsweredId_sent(sent, result) == sent

\* the id the service answers with is the authoritative one
AnsweredId(sent, result) == NumberFromString(Prop(result, "conversation_id"))

\* the chat call of a send settles: the exchange is attached to the id the
\* service returned and that id becomes the active one, or the send fails
SendAnswered(i, response) ==
    /\ i \in 1..Len(ops)
    /\ ops[i].kind = "send" /\ ops[i].pc = "chat"
    /\ LET o == Settle(response)
           k == AnsweredId(ops[i].conv, o.result)
       IN  IF o.pc = "resolved"
           THEN /\ messages' =
                       Append(Reconcile(messages, i, "sent", k),
                              Msg(i, k, "assistant", "sent",
                                  TemplateStr(Prop(o.result, "response")), 0))
                /\ activeId' = k
                /\ conversations' = AddConversation(conversations, k, "New chat")
                /\ ops' = [ops EXCEPT ![i].pc = "done", ![i].conv = k,
                                      ![i].response = response]
                /\ UNCHANGED lastError
           ELSE /\ messages' = Reconcile(messages, i, "failed", ops[i].conv)
                /\ ops' = [ops EXCEPT ![i].pc = "failed", ![i].response = response]
                /\ lastError' = o.error.message
                /\ UNCHANGED <<conversations, activeId>>
    /\ UNCHANGED <<credVars, calls, network, authVars, mode, viewVars>>
    /\ UNCHANGED moreVars

\* loadMessages(conversationId)
LoadMessages(c) ==
    /\ Len(ops) < MaxOps
    /\ c \in Ids(conversations)
    /\ network' = Issue(network, Len(ops) + 1, getConversationMessages(c))
    /\ ops' = Append(ops, Op("load", "wait", c, "", mode, "", ""))
    /\ UNCHANGED <<conversations, activeId, messages, lastError>>
    /\ UNCHANGED <<credVars, calls, authVars, mode, viewVars>>
    /\ UNCHANGED moreVars

Loaded(c, items) ==
    [n \in DOMAIN items |->
        Msg(0, c, TemplateStr(Prop(items[n], "role")), "sent",
            TemplateStr(Prop(items[n], "content")), NumberOf(Prop(items[n], "id")))]

MergeMessages_replace(msgs, c, items) ==
    Loaded(c, items) \o SelectSeq(msgs, LAMBDA m : m.conv # c)

\* the loaded sequence replaces the local one, except that while a send to the
\* conversation is outstanding the local messages the service has not numbered
\* are kept, behind the loaded ones and in the order they had
MergeMessages(msgs, c, items) ==
    LET outstanding == \E n \in DOMAIN msgs : msgs[n].conv = c /\ msgs[n].status = "pending"
    IN  Loaded(c, items)
            \o SelectSeq(msgs, LAMBDA m : m.conv # c \/ (outstanding /\ m.sid = 0))

LoadMessagesAnswered(i, response) ==
    /\ i \in 1..Len(ops)
    /\ ops[i].kind = "load" /\ ops[i].pc = "wait"
    /\ LET o == Settle(response) IN
       IF o.pc = "resolved"
       THEN /\ messages' = MergeMessages(messages, ops[i].conv, ItemsOf(o.result))
            /\ ops' = [ops EXCEPT ![i].pc = "done", ![i].response = response]
            /\ UNCHANGED lastError
       ELSE /\ ops' = [ops EXCEPT ![i].pc = "failed", ![i].response = response]
            /\ lastError' = o.error.message
            /\ UNCHANGED messages
    /\ UNCHANGED <<conversations, activeId>>
    /\ UNCHANGED <<credVars, calls, network, authVars, mode, viewVars>>
    /\ UNCHANGED moreVars

\* renameConversation(id, title): the new title is applied at once and the
\* title it replaces is kept for the case that the call fails
RenameConversation(c, title) ==
    /\ Len(ops) < MaxOps
    /\ c \in Ids(conversations)
    /\ conversations' = SetTitle(conversations, c, title)
    /\ network' = Issue(network, Len(ops) + 1, updateConversationTitle(c, title))
    /\ ops' = Append(ops, Op("rename", "wait", c, "", mode, title,
                             TitleOf(conversations, c)))
    /\ UNCHANGED <<activeId, messages, lastError>>
    /\ UNCHANGED <<credVars, calls, authVars, mode, viewVars>>
    /\ UNCHANGED moreVars

RenameAnswered(i, response) ==
    /\ i \in 1..Len(ops)
    /\ ops[i].kind = "rename" /\ ops[i].pc = "wait"
    /\ LET o == Settle(response) IN
       IF o.pc = "resolved"
       THEN /\ conversations' =
                   SetTitle(conversations, ops[i].conv, TemplateStr(Prop(o.result, "title")))
            /\ ops' = [ops EXCEPT ![i].pc = "done", ![i].response = response]
            /\ UNCHANGED lastError
       ELSE /\ conversations' = SetTitle(conversations, ops[i].conv, ops[i].prior)
            /\ ops' = [ops EXCEPT ![i].pc = "failed", ![i].response = response]
            /\ lastError' = o.error.message
    /\ UNCHANGED <<activeId, messages>>
    /\ UNCHANGED <<credVars, calls, network, authVars, mode, viewVars>>
    /\ UNCHANGED moreVars

\* deleteConversation(id): only the request goes out; the list is untouched
\* until the service confirms
DeleteConversation(c) ==
    /\ Len(ops) < MaxOps
    /\ c \in Ids(conversations)
    /\ network' = Issue(network, Len(ops) + 1, deleteConversation(c))
    /\ ops' = Append(ops, Op("delete", "wait", c, "", mode, "", ""))
    /\ UNCHANGED <<conversations, activeId, messages, lastError>>
    /\ UNCHANGED <<credVars, calls, authVars, mode, viewVars>>
    /\ UNCHANGED moreVars

Remove(list, c) == SelectSeq(list, LAMBDA e : e.id # c)

ActiveAfterDelete_keep(active, c) == active

\* the selection is cleared together with the entry it points at
ActiveAfterDelete(active, c) == IF active = c THEN 0 ELSE active

DeleteAnswered(i, response) ==
    /\ i \in 1..Len(ops)
    /\ ops[i].kind = "delete" /\ ops[i].pc = "wait"
    /\ LET o == Settle(response) IN
       IF o.pc = "resolved"
       THEN /\ conversations' = Remove(conversations, ops[i].conv)
            /\ activeId' = ActiveAfterDelete(activeId, ops[i].conv)
            /\ ops' = [ops EXCEPT ![i].pc = "done", ![i].response = response]
            /\ UNCHANGED lastError
       ELSE /\ ops' = [ops EXCEPT ![i].pc = "failed", ![i].response = response]
            /\ lastError' = o.error.message
            /\ UNCHANGED <<conversations, activeId>>
    /\ UNCHANGED messages
    /\ UNCHANGED <<credVars, calls, network, authVars, mode, viewVars>>
    /\ UNCHANGED moreVars

\* listConversations(userId): the list is taken as delivered
ListConversations ==
    /\ Len(ops) < MaxOps
    /\ network' = Issue(network, Len(ops) + 1, getUserConversations(USER_ID))
    /\ ops' = Append(ops, Op("list", "wait", 0, "", mode, "", ""))
    /\ UNCHANGED <<conversations, activeId, messages, lastError>>
    /\ UNCHANGED <<credVars, calls, authVars, mode, viewVars>>
    /\ UNCHANGED moreVars

Listed(items) ==
    [n \in DOMAIN items |->
        [id |-> NumberOf(Prop(items[n], "id")),
         title |-> TemplateStr(Prop(items[n], "title"))]]

ListAnswered(i, response) ==
    /\ i \in 1..Len(ops)
    /\ ops[i].kind = "list" /\ ops[i].pc = "wait"
    /\ LET o == Settle(response)
           list == Listed(ItemsOf(Prop(o.result, "conversations")))
       IN  IF o.pc = "resolved"
           THEN /\ conversations' = list
                /\ activeId' = IF activeId \in Ids(list) THEN activeId ELSE 0
                /\ ops' = [ops EXCEPT ![i].pc = "done", ![i].response = response]
                /\ UNCHANGED lastError
           ELSE /\ ops' = [ops EXCEPT ![i].pc = "failed", ![i].response = response]
                /\ lastError' = o.error.message
                /\ UNCHANGED <<conversations, activeId>>
    /\ UNCHANGED messages
    /\ UNCHANGED <<credVars, calls, network, authVars, mode, viewVars>>
    /\ UNCHANGED moreVars

(***************************************************************************)
(* The views that load on mount: AIActivityLog and IntegrationsPage        *)
(***************************************************************************)
\* leaving a page unmounts it: what its waiting loads set afterwards reaches
\* no state
Unmounted(os) ==
    [n \in DOMAIN os |->
        IF os[n].kind \in {"activity", "integrations", "project"} /\ os[n].pc = "wait"
        THEN [os[n] EXCEPT !.pc = "stale"]
        ELSE IF os[n].kind = "disconnect" /\ os[n].pc \in {"wait", "reload", "timer"}
        THEN [os[n] EXCEPT !.prior = "unmounted"]
        ELSE os[n]]

\* a 2xx answer whose body is JSON of another shape than the caller expects
WrongShape == [status |-> 200, body |-> "{\"foo\":1}"]

ActivityResponses ==
    { [status |-> 200, body |-> "[]"], [status |-> 200, body |-> ActivityText], WrongShape }
        \cup FailureResponses

StatusResponses ==
    { [status |-> 200, body |-> "[]"], [status |-> 200, body |-> StatusText], WrongShape }
        \cup FailureResponses

\* the route /ai-activity mounts AIActivityLog: useState defaults, then the
\* effect runs load() up to its await
OpenActivityLog ==
    /\ location \in {"/chatbot", "/integrations"}
    /\ Len(ops) < MaxOps
    /\ location' = "/ai-activity"
    /\ entries' = JArray(<<>>)
    /\ loading' = TRUE
    /\ network' = Issue(network, Len(ops) + 1, getActivityLog(JUndefined))
    /\ ops' = Append(Unmounted(ops), Op("activity", "wait", 0, "", mode, "", ""))
    /\ UNCHANGED <<integrations, isLoading, loadError>>
    /\ UNCHANGED <<credVars, calls, lastAuthCall, mode, conversations, activeId,
                   messages, lastError>>
    /\ UNCHANGED moreVars

setMode_clearsModel(newMode) ==
    /\ mode' = newMode
    /\ localStorage' = (MODE_STORAGE_KEY :> newMode) @@ localStorage
    /\ IF location = "/ai-activity" /\ newMode # mode
       THEN /\ Len(ops) < MaxOps
            /\ loading' = TRUE
            /\ network' = Issue(network, Len(ops) + 1, getActivityLog(JUndefined))
            /\ ops' = Append(ops, Op("activity", "wait", 0, "", newMode, "", ""))
       ELSE UNCHANGED <<loading, network, ops>>
    /\ conversations' = IF newMode # mode THEN <<>> ELSE conversations
    /\ messages' = IF newMode # mode THEN <<>> ELSE messages
    /\ UNCHANGED <<entries, integrations, isLoading, loadError>>
    /\ UNCHANGED <<sessionStorage, calls, authVars, activeId, lastError>>
    /\ UNCHANGED moreVars

setMode_noPersist(newMode) ==
    /\ mode' = newMode
    /\ IF location = "/ai-activity" /\ newMode # mode
       THEN /\ Len(ops) < MaxOps
            /\ loading' = TRUE
            /\ network' = Issue(network, Len(ops) + 1, getActivityLog(JUndefined))
            /\ ops' = Append(ops, Op("activity", "wait", 0, "", newMode, "", ""))
       ELSE UNCHANGED <<loading, network, ops>>
    /\ UNCHANGED <<entries, integrations, isLoading, loadError>>
    /\ UNCHANGED <<credVars, calls, authVars, conversations, activeId,
                   messages, lastError>>
    /\ UNCHANGED moreVars

\* setMode: setModeState(newMode); localStorage.setItem(...); a mounted
\* AIActivityLog re-runs its effect when the mode has changed
setMode(newMode) ==
    /\ mode' = newMode
    /\ localStorage' = (MODE_STORAGE_KEY :> newMode) @@ localStorage
    /\ IF location = "/ai-activity" /\ newMode # mode
       THEN /\ Len(ops) < MaxOps
            /\ loading' = TRUE
            /\ network' = Issue(network, Len(ops) + 1, getActivityLog(JUndefined))
            /\ ops' = Append(ops, Op("activity", "wait", 0, "", newMode, "", ""))
       ELSE UNCHANGED <<loading, network, ops>>
    /\ UNCHANGED <<entries, integrations, isLoading, loadError>>
    /\ UNCHANGED <<sessionStorage, calls, authVars, conversations, activeId,
                   messages, lastError>>
    /\ UNCHANGED moreVars

ActivityLoadAnswered_noFinally(i, response) ==
    /\ i \in 1..Len(ops)
    /\ ops[i].kind = "activity" /\ ops[i].pc \in {"wait", "stale"}
    /\ LET o == Settle(response) IN
       IF ops[i].pc = "wait"
       THEN /\ entries' = IF o.pc = "resolved" THEN o.result ELSE entries
            /\ loading' = IF o.pc = "resolved" THEN FALSE ELSE loading
            /\ ops' = [ops EXCEPT ![i].pc = IF o.pc = "resolved" THEN "done" ELSE "failed",
                                  ![i].response = response]
       ELSE /\ ops' = [ops EXCEPT ![i].pc = "dropped", ![i].response = response]
            /\ UNCHANGED <<entries, loading>>
    /\ UNCHANGED <<integrations, isLoading, loadError>>
    /\ UNCHANGED <<credVars, gwVars, authVars, mode, conversations, activeId,
                   messages, lastError>>
    /\ UNCHANGED moreVars

\* load() of AIActivityLog after its await: try / catch / finally
ActivityLoadAnswered(i, response) ==
    /\ i \in 1..Len(ops)
    /\ ops[i].kind = "activity" /\ ops[i].pc \in {"wait", "stale"}
    /\ LET o == Settle(response) IN
       IF ops[i].pc = "wait"
       THEN /\ entries' = IF o.pc = "resolved" THEN o.result ELSE entries
            /\ loading' = FALSE
            /\ ops' = [ops EXCEPT ![i].pc = IF o.pc = "resolved" THEN "done" ELSE "failed",
                                  ![i].response = response]
       ELSE /\ ops' = [ops EXCEPT ![i].pc = "dropped", ![i].response = response]
            /\ UNCHANGED <<entries, loading>>
    /\ UNCHANGED <<integrations, isLoading, loadError>>
    /\ UNCHANGED <<credVars, gwVars, authVars, mode, conversations, activeId,
                   messages, lastError>>
    /\ UNCHANGED moreVars

\* the route /integrations mounts IntegrationsPage: useState defaults, then
\* the effect runs loadIntegrations() up to its await
OpenIntegrations ==
    /\ location \in {"/chatbot", "/ai-activity"}
    /\ Len(ops) < MaxOps
    /\ location' = "/integrations"
    /\ integrations' = JArray(<<>>)
    /\ isLoading' = TRUE
    /\ loadError' = JNull
    /\ network' = Issue(network, Len(ops) + 1, getIntegrationStatus)
    /\ ops' = Append(Unmounted(ops), Op("integrations", "wait", 0, "", mode, "", ""))
    /\ success' = JNull
    /\ UNCHANGED <<entries, loading>>
    /\ UNCHANGED <<credVars, calls, lastAuthCall, mode, conversations, activeId,
                   messages, lastError, routeVars, detailVars>>

\* loadIntegrations() after its await: try / catch / finally
IntegrationsLoadAnswered(i, response) ==
    /\ i \in 1..Len(ops)
    /\ ops[i].kind = "integrations" /\ ops[i].pc \in {"wait", "stale"}
    /\ LET o == Settle(response) IN
       IF ops[i].pc = "wait"
       THEN /\ integrations' = IF o.pc = "resolved" THEN o.result ELSE integrations
            /\ loadError' = IF o.pc = "resolved" THEN JNull ELSE JString(o.error.message)
            /\ isLoading' = FALSE
            /\ ops' = [ops EXCEPT ![i].pc = IF o.pc = "resolved" THEN "done" ELSE "failed",
                                  ![i].response = response]
       ELSE /\ ops' = [ops EXCEPT ![i].pc = "dropped", ![i].response = response]
            /\ UNCHANGED <<integrations, loadError, isLoading>>
    /\ UNCHANGED <<entries, loading>>
    /\ UNCHANGED <<credVars, gwVars, authVars, mode, conversations, activeId,
                   messages, lastError>>
    /\ UNCHANGED moreVars

(***************************************************************************)
(* IntegrationsPage: handleDisconnect                                      *)
(***************************************************************************)
\* All Google services connect together via single OAuth
GOOGLE_SERVICES == <<"gmail", "calendar", "docs", "sheets", "drive", "forms">>

IsGoogle(service) == \E n \in DOMAIN GOOGLE_SERVICES : GOOGLE_SERVICES[n] = service

\* SERVICE_META[service].name of the services the status list may hold
Services == {"gmail", "github"}

ServiceName(service) == IF service = "gmail" THEN "Gmail" ELSE "GitHub"

\* the request of disconnectService(service): one apiRequest naming the service
disconnectService(service) ==
    ApiRequest("/api/integrations/" \o service \o "/disconnect", "POST", JUndefined)

DisconnectResponses == { [status |-> 200, body |-> "{}"] } \cup FailureResponses

\* the card of `service` shows its Disconnect button: the list is on screen
\* and holds the service as connected
CanDisconnect(service) ==
    /\ location = "/integrations"
    /\ ~isLoading
    /\ \E n \in DOMAIN ItemsOf(integrations) :
           /\ Prop(ItemsOf(integrations)[n], "service") = JString(service)
           /\ Truthy(Prop(ItemsOf(integrations)[n], "connected"))

\* the service the n-th call of a disconnect of `service` names
Target(service, n) == IF IsGoogle(service) THEN GOOGLE_SERVICES[n] ELSE service

\* the number of calls a disconnect of `service` makes when none fails
Targets(service) == IF IsGoogle(service) THEN Len(GOOGLE_SERVICES) ELSE 1

\* handleDisconnect(service) up to its first await; `conv` counts the calls
\* issued, `text` is the service of the card
handleDisconnect(service) ==
    /\ CanDisconnect(service)
    /\ Len(ops) < MaxOps
    /\ network' = Issue(network, Len(ops) + 1, disconnectService(Target(service, 1)))
    /\ ops' = Append(ops, Op("disconnect", "wait", 1, service, mode, "", ""))
    /\ UNCHANGED <<credVars, calls, authVars, mode, conversations, activeId,
                   messages, lastError, viewVars>>
    /\ UNCHANGED moreVars

DisconnectAnswered_keepsGoing(i, response) ==
    /\ i \in 1..Len(ops)
    /\ ops[i].kind = "disconnect" /\ ops[i].pc = "wait"
    /\ LET o       == Settle(response)
           mounted == ops[i].prior # "unmounted"
           more    == ops[i].conv < Targets(ops[i].text)
       IN
       IF more
       THEN /\ network' = Issue(network, i,
                                disconnectService(Target(ops[i].text, ops[i].conv + 1)))
            /\ ops' = [ops EXCEPT ![i].conv = @ + 1, ![i].response = response]
            /\ UNCHANGED <<success, isLoading, loadError>>
       ELSE IF o.pc = "rejected"
       THEN /\ loadError' = IF mounted THEN JString(o.error.message) ELSE loadError
            /\ ops' = [ops EXCEPT ![i].pc = "failed", ![i].response = response]
            /\ UNCHANGED <<network, success, isLoading>>
       ELSE /\ success' = IF mounted THEN JString(ServiceName(ops[i].text) \o " disconnected.")
                          ELSE success
            /\ isLoading' = IF mounted THEN TRUE ELSE isLoading
            /\ network' = Issue(network, i, getIntegrationStatus)
            /\ ops' = [ops EXCEPT ![i].pc = "reload", ![i].response = response]
            /\ UNCHANGED loadError
    /\ UNCHANGED <<entries, loading, integrations>>
    /\ UNCHANGED <<credVars, calls, authVars, mode, conversations, activeId,
                   messages, lastError, routeVars, detailVars>>

\* handleDisconnect after an `await disconnectService(..)`: a rejection
\* leaves the loop for the catch; otherwise the next service of the loop is
\* called, and after the last one setSuccess and loadIntegrations() up to
\* its await
DisconnectAnswered(i, response) ==
    /\ i \in 1..Len(ops)
    /\ ops[i].kind = "disconnect" /\ ops[i].pc = "wait"
    /\ LET o       == Settle(response)
           mounted == ops[i].prior # "unmounted"
           more    == ops[i].conv < Targets(ops[i].text)
       IN
       IF o.pc = "rejected"
       THEN /\ loadError' = IF mounted THEN JString(o.error.message) ELSE loadError
            /\ ops' = [ops EXCEPT ![i].pc = "failed", ![i].response = response]
            /\ UNCHANGED <<network, success, isLoading>>
       ELSE IF more
       THEN /\ network' = Issue(network, i,
                                disconnectService(Target(ops[i].text, ops[i].conv + 1)))
            /\ ops' = [ops EXCEPT ![i].conv = @ + 1, ![i].response = response]
            /\ UNCHANGED <<success, isLoading, loadError>>
       ELSE /\ success' = IF mounted THEN JString(ServiceName(ops[i].text) \o " disconnected.")
                          ELSE success
            /\ isLoading' = IF mounted THEN TRUE ELSE isLoading
            /\ network' = Issue(network, i, getIntegrationStatus)
            /\ ops' = [ops EXCEPT ![i].pc = "reload", ![i].response = response]
            /\ UNCHANGED loadError
    /\ UNCHANGED <<entries, loading, integrations>>
    /\ UNCHANGED <<credVars, calls, authVars, mode, conversations, activeId,
                   messages, lastError, routeVars, detailVars>>

\* `await loadIntegrations()` inside handleDisconnect: its try / catch /
\* finally, then setTimeout(() => setSuccess(null), 5000)
DisconnectReloaded(i, response) ==
    /\ i \in 1..Len(ops)
    /\ ops[i].kind = "disconnect" /\ ops[i].pc = "reload"
    /\ LET o       == Settle(response)
           mounted == ops[i].prior # "unmounted"
       IN
       /\ integrations' = IF mounted /\ o.pc = "resolved" THEN o.result ELSE integrations
       /\ loadError' = IF ~mounted THEN loadError
                       ELSE IF o.pc = "resolved" THEN JNull ELSE JString(o.error.message)
       /\ isLoading' = IF mounted THEN FALSE ELSE isLoading
       /\ ops' = [ops EXCEPT ![i].pc = "timer", ![i].response = response]
    /\ UNCHANGED <<entries, loading>>
    /\ UNCHANGED <<credVars, gwVars, authVars, mode, conversations, activeId,
                   messages, lastError>>
    /\ UNCHANGED moreVars

\* the timer of handleDisconnect fires: setSuccess(null)
SuccessTimeout(i) ==
    /\ i \in 1..Len(ops)
    /\ ops[i].kind = "disconnect" /\ ops[i].pc = "timer"
    /\ success' = IF ops[i].prior # "unmounted" THEN JNull ELSE success
    /\ ops' = [ops EXCEPT ![i].pc = "done"]
    /\ UNCHANGED <<credVars, gwVars, authVars, mode, conversations, activeId,
                   messages, lastError, viewVars, routeVars, detailVars>>

\* the route /chatbot
OpenChat ==
    /\ location \in {"/ai-activity", "/integrations"}
    /\ location' = "/chatbot"
    /\ ops' = Unmounted(ops)
    /\ UNCHANGED <<credVars, gwVars, lastAuthCall, mode, conversations, activeId,
                   messages, lastError, viewVars>>
    /\ UNCHANGED moreVars

(***************************************************************************)
(* ProjectDetailPage: the page of the route /company-activity/:projectId   *)
(***************************************************************************)
\* useParams(): the empty string stands for a parameter that is absent
NoProject == ""

ProjectPath(p) == "/company-activity/" \o p

ProjectResponses(p) ==
    { [status |-> 200, body |-> ProjectText(p)] } \cup FailureResponses

\* the effect of ProjectDetailPage for parameter p: load() up to its await,
\* or to its `if (!projectId) return`
LoadProject(os, p) ==
    /\ projectId' = p
    /\ IF p = NoProject
       THEN /\ ops' = os
            /\ UNCHANGED network
       ELSE /\ Len(ops) < MaxOps
            /\ network' = Issue(network, Len(ops) + 1, getProjectDetail(p))
            /\ ops' = Append(os, Op("project", "wait", 0, p, mode, "", ""))

\* the page mounts with parameter p: useState defaults, then the effect
OpenProject(p) ==
    /\ location \in {"/chatbot", "/company-dashboard"}
    /\ location' = ProjectPath(p)
    /\ projectData' = JNull
    /\ projectLoading' = TRUE
    /\ projectError' = JNull
    /\ LoadProject(Unmounted(ops), p)
    /\ UNCHANGED <<credVars, calls, lastAuthCall, mode, conversations, activeId,
                   messages, lastError, viewVars, success, routeVars>>

\* the route parameter changes while the page stays mounted: the state is
\* kept and the effect runs again for its dependency [projectId]
ChangeProject(p) ==
    /\ location = ProjectPath(projectId)
    /\ p # projectId
    /\ location' = ProjectPath(p)
    /\ LoadProject(ops, p)
    /\ UNCHANGED <<projectData, projectLoading, projectError>>
    /\ UNCHANGED <<credVars, calls, lastAuthCall, mode, conversations, activeId,
                   messages, lastError, viewVars, success, routeVars>>

\* load() after its await: try / catch / finally
ProjectLoadAnswered(i, response) ==
    /\ i \in 1..Len(ops)
    /\ ops[i].kind = "project" /\ ops[i].pc \in {"wait", "stale"}
    /\ response \in ProjectResponses(ops[i].text)
    /\ LET o == Settle(response) IN
       IF ops[i].pc = "wait"
       THEN /\ projectData' = IF o.pc = "resolved" THEN o.result ELSE projectData
            /\ projectError' = IF o.pc = "resolved" THEN projectError
                                ELSE JString("Project not found")
            /\ projectLoading' = FALSE
            /\ ops' = [ops EXCEPT ![i].pc = IF o.pc = "resolved" THEN "done" ELSE "failed",
                                  ![i].response = response]
       ELSE /\ ops' = [ops EXCEPT ![i].pc = "dropped", ![i].response = response]
            /\ UNCHANGED <<projectData, projectError, projectLoading>>
    /\ UNCHANGED projectId
    /\ UNCHANGED <<credVars, gwVars, authVars, mode, conversations, activeId,
                   messages, lastError, viewVars, success, routeVars>>

\* "Back to Dashboard" / the sidebar: the page is left
OpenDashboard ==
    /\ location \in {"/chatbot"} \cup { ProjectPath(p) : p \in ProjectIds \cup {NoProject} }
    /\ location' = "/company-dashboard"
    /\ ops' = Unmounted(ops)
    /\ UNCHANGED <<credVars, gwVars, lastAuthCall, mode, conversations, activeId,
                   messages, lastError, viewVars>>
    /\ UNCHANGED moreVars

(***************************************************************************)
(* The routes of App, with the ProtectedRoute wrapper of the App that      *)
(* still mounts an AuthProvider                                            *)
(***************************************************************************)
ProjectPaths == { ProjectPath(p) : p \in ProjectIds }

ProtectedPaths ==
    {"/chatbot", "/company-dashboard", "/ai-activity", "/settings", "/integrations"}
        \cup ProjectPaths

Paths == {"/", "/login", "/signup"} \cup ProtectedPaths

\* what a route element comes to: something on screen, or <Navigate to replace />
Element(what) == [navigate |-> FALSE, to |-> "", shown |-> what]
Navigate(to)  == [navigate |-> TRUE, to |-> to, shown |-> ""]

ProtectedRoute_noLoadingCheck(bypass, report) ==
    IF bypass THEN Element("page")
    ELSE IF ~report.isAuthenticated THEN Navigate("/login")
    ELSE Element("page")

\* const { isAuthenticated, isLoading } = useAuth(); bypass first, then the
\* "Loading..." placeholder, then the redirect to /login, then the children
ProtectedRoute(bypass, report) ==
    IF bypass THEN Element("page")
    ELSE IF report.isLoading THEN Element("placeholder")
    ELSE IF ~report.isAuthenticated THEN Navigate("/login")
    ELSE Element("page")

\* the landing page: with the bypass it redirects to /chatbot
LandingPage(bypass) ==
    IF bypass THEN Navigate("/chatbot") ELSE Element("landing")

\* <Routes>: `guarded` is the App that wraps its pages in ProtectedRoute
\* inside an AuthProvider; the current App renders them directly
App(guarded, bypass, report, path) ==
    CASE path = "/"       -> LandingPage(bypass)
      [] path = "/login"  -> IF guarded
                             THEN IF bypass THEN Navigate("/chatbot") ELSE Element("login")
                             ELSE Navigate("/chatbot")
      [] path = "/signup" -> IF guarded
                             THEN IF bypass THEN Navigate("/") ELSE Element("signup")
                             ELSE Navigate("/chatbot")
      [] OTHER            -> IF guarded THEN ProtectedRoute(bypass, report)
                             ELSE Element("page")

\* the longest chain of redirects the routes hold is /signup -> / -> /chatbot
MaxRedirects == 3

\* the router follows every <Navigate> until an element is on screen
RECURSIVE Follow(_, _, _, _, _)
Follow(guarded, bypass, report, path, fuel) ==
    LET e == App(guarded, bypass, report, path) IN
    IF e.navigate /\ fuel > 0
    THEN Follow(guarded, bypass, report, e.to, fuel - 1)
    ELSE [path |-> path, shown |-> e.shown]

\* where a visit to `path` ends in the current state
Outcome(path) == Follow(authProvider, bypassLogin, auth, path, MaxRedirects)

\* the state of the hooks a page of AuthContextType may be given: the
\* provider of this tree reports one of them, a provider holding a session
\* reports the others
AuthReports(inProvider) ==
    IF inProvider
    THEN { AuthReport(IF a THEN DEFAULT_USER ELSE NoUser, l, a) : l \in BOOLEAN, a \in BOOLEAN }
    ELSE { useAuth(inProvider) }

\* the page of a route mounts: AIActivityLog and IntegrationsPage load on
\* mount, ProjectDetailPage loads for its parameter (and stays mounted
\* between two project routes), the other pages start nothing
MountPage(path, rendered) ==
    IF rendered /\ path = "/ai-activity"
    THEN /\ Len(ops) < MaxOps
         /\ entries' = JArray(<<>>)
         /\ loading' = TRUE
         /\ network' = Issue(network, Len(ops) + 1, getActivityLog(JUndefined))
         /\ ops' = Append(Unmounted(ops), Op("activity", "wait", 0, "", mode, "", ""))
         /\ UNCHANGED <<integrations, isLoading, loadError, success, detailVars>>
    ELSE IF rendered /\ path = "/integrations"
    THEN /\ Len(ops) < MaxOps
         /\ integrations' = JArray(<<>>)
         /\ isLoading' = TRUE
         /\ loadError' = JNull
         /\ success' = JNull
         /\ network' = Issue(network, Len(ops) + 1, getIntegrationStatus)
         /\ ops' = Append(Unmounted(ops), Op("integrations", "wait", 0, "", mode, "", ""))
         /\ UNCHANGED <<entries, loading, detailVars>>
    ELSE IF rendered /\ path \in ProjectPaths
    THEN /\ \E p \in ProjectIds :
              /\ path = ProjectPath(p)
              /\ IF location \in ProjectPaths /\ shown = "page"
                 THEN /\ LoadProject(ops, p)
                      /\ UNCHANGED <<projectData, projectLoading, projectError>>
                 ELSE /\ LoadProject(Unmounted(ops), p)
                      /\ projectData' = JNull
                      /\ projectLoading' = TRUE
                      /\ projectError' = JNull
         /\ UNCHANGED <<viewVars, success>>
    ELSE /\ ops' = Unmounted(ops)
         /\ UNCHANGED <<network, viewVars, success, detailVars>>

\* the user opens `path`: the router follows the redirects and the element
\* it ends at is rendered
Visit(path) ==
    LET r == Outcome(path) IN
    /\ r.path # location
    /\ location' = r.path
    /\ shown' = r.shown
    /\ MountPage(r.path, r.shown = "page")
    /\ UNCHANGED <<credVars, calls, lastAuthCall, mode, conversations, activeId,
                   messages, lastError, bypassLogin, authProvider, auth>>

\* the answers to the calls of a page that is gone are delivered to nobody
Abandoned(os) ==
    [n \in DOMAIN os |->
        IF os[n].pc \in {"wait", "create", "chat", "reload", "timer"}
        THEN [os[n] EXCEPT !.pc = "stale"] ELSE os[n]]

\* the browser reloads the page: both storage areas stay, every provider and
\* page is constructed again (ModeProvider from getStoredMode) and the page
\* of the current route mounts
Reload ==
    /\ mode' = getStoredMode
    /\ conversations' = <<>>
    /\ activeId' = 0
    /\ messages' = <<>>
    /\ lastError' = ""
    /\ entries' = JArray(<<>>)
    /\ loading' = TRUE
    /\ integrations' = JArray(<<>>)
    /\ isLoading' = TRUE
    /\ loadError' = JNull
    /\ IF location = "/ai-activity"
       THEN /\ Len(ops) < MaxOps
            /\ network' = Issue(network, Len(ops) + 1, getActivityLog(JUndefined))
            /\ ops' = Append(Abandoned(ops),
                             Op("activity", "wait", 0, "", getStoredMode, "", ""))
       ELSE IF location = "/integrations"
       THEN /\ Len(ops) < MaxOps
            /\ network' = Issue(network, Len(ops) + 1, getIntegrationStatus)
            /\ ops' = Append(Abandoned(ops),
                             Op("integrations", "wait", 0, "", getStoredMode, "", ""))
       ELSE IF location = ProjectPath(projectId) /\ projectId # NoProject
       THEN /\ Len(ops) < MaxOps
            /\ network' = Issue(network, Len(ops) + 1, getProjectDetail(projectId))
            /\ ops' = Append(Abandoned(ops),
                             Op("project", "wait", 0, projectId, getStoredMode, "", ""))
       ELSE /\ ops' = Abandoned(ops)
            /\ UNCHANGED network
    /\ success' = JNull
    /\ projectData' = JNull
    /\ projectLoading' = TRUE
    /\ projectError' = JNull
    /\ UNCHANGED <<credVars, calls, authVars, routeVars, projectId>>

(***************************************************************************)
(* Specifications                                                          *)
(***************************************************************************)
\* the current App: no bypass consulted, no AuthProvider, no page of the
\* later sections mounted
MoreInit ==
    /\ success = JNull
    /\ bypassLogin = TRUE
    /\ authProvider = FALSE
    /\ auth = useAuth(authProvider)
    /\ shown = "page"
    /\ projectId = ""
    /\ projectData = JNull
    /\ projectError = JNull
    /\ projectLoading = TRUE

\* the page before any conversation, message or view data has been loaded
PageInit ==
    /\ mode = getStoredMode
    /\ conversations = <<>>
    /\ activeId = 0
    /\ messages = <<>>
    /\ ops = <<>>
    /\ lastError = ""
    /\ entries = JArray(<<>>)
    /\ loading = TRUE
    /\ integrations = JArray(<<>>)
    /\ isLoading = TRUE
    /\ loadError = JNull

Init ==
    /\ localStorage \in StorageContents
    /\ sessionStorage \in StorageContents
    /\ calls = <<>>
    /\ network = <<>>
    /\ lastAuthCall = AuthCall("none", FALSE, NoUser)
    /\ location = "/chatbot"
    /\ PageInit
    /\ MoreInit

\* the request gateway under every storage content
Next ==
    \/ \E c \in ApiCallers : ApiCall(c)
    \/ \E i \in 1..MaxCalls, r \in Responses : FetchResolve(i, r)
    \/ \E i \in 1..MaxCalls : FetchReject(i)

Spec == Init /\ [][Next]_vars

\* the authentication context together with the requests the page issues
NextAuth ==
    \/ \E e \in Emails, p \in Passwords, r \in BOOLEAN : login(e, p, r)
    \/ \E e \in Emails, p \in Passwords : signup(e, p)
    \/ \E e \in Emails : updateProfile(e)
    \/ handleLogout
    \/ LoginRouteRedirect
    \/ OpenSettings
    \/ \E c \in ApiCallers : ApiCall(c)

\* the calls of the context under an App with and without an AuthProvider
InitAuth ==
    /\ localStorage \in StorageContents
    /\ sessionStorage \in StorageContents
    /\ calls = <<>>
    /\ network = <<>>
    /\ lastAuthCall = AuthCall("none", FALSE, NoUser)
    /\ location = "/chatbot"
    /\ PageInit
    /\ success = JNull
    /\ bypassLogin = TRUE
    /\ authProvider \in BOOLEAN
    /\ auth = useAuth(authProvider)
    /\ shown = "page"
    /\ projectId = ""
    /\ projectData = JNull
    /\ projectError = JNull
    /\ projectLoading = TRUE

SpecAuth == InitAuth /\ [][NextAuth]_vars

\* a session of the chat page: a credential of this session, nothing loaded yet
InitSync ==
    /\ localStorage = EmptyFn
    /\ sessionStorage = (USER_KEY :> "{\"token\":\"t1\"}")
    /\ calls = <<>>
    /\ network = <<>>
    /\ lastAuthCall = AuthCall("none", FALSE, NoUser)
    /\ location = "/chatbot"
    /\ PageInit
    /\ MoreInit

\* the synchronizer's operations, each with every answer of the service
NextSync ==
    \/ \E t \in Texts : SendMessage(t)
    \/ \E i \in 1..MaxOps, r \in CreateResponses : SendCreated(i, r)
    \/ \E i \in 1..MaxOps, r \in ChatResponses : SendAnswered(i, r)
    \/ \E c \in ConvIds : LoadMessages(c)
    \/ \E i \in 1..Len(ops) : \E r \in MessagesResponses(ops[i].conv) : LoadMessagesAnswered(i, r)
    \/ \E c \in ConvIds, t \in Titles : RenameConversation(c, t)
    \/ \E i \in 1..Len(ops) : \E r \in RenameResponses(ops[i].conv) : RenameAnswered(i, r)
    \/ \E c \in ConvIds : DeleteConversation(c)
    \/ \E i \in 1..MaxOps, r \in DeleteResponses : DeleteAnswered(i, r)
    \/ ListConversations
    \/ \E i \in 1..MaxOps, r \in ListResponses : ListAnswered(i, r)

SpecSync == InitSync /\ [][NextSync]_vars

\* sends alone, with the mode changing under them
NextSend ==
    \/ \E t \in Texts : SendMessage(t)
    \/ \E i \in 1..MaxOps, r \in CreateResponses : SendCreated(i, r)
    \/ \E i \in 1..MaxOps, r \in ChatResponses : SendAnswered(i, r)
    \/ \E m \in AppMode : setMode(m)

SpecSend == InitSync /\ [][NextSend]_vars

\* the read operations: the two lists of the synchronizer and the two views
NextRead ==
    \/ ListConversations
    \/ \E i \in 1..MaxOps, r \in ListResponses : ListAnswered(i, r)
    \/ \E c \in ConvIds : LoadMessages(c)
    \/ \E i \in 1..Len(ops) : \E r \in MessagesResponses(ops[i].conv) : LoadMessagesAnswered(i, r)
    \/ OpenActivityLog
    \/ OpenIntegrations
    \/ OpenChat
    \/ \E m \in AppMode : setMode(m)
    \/ \E i \in 1..MaxOps, r \in ActivityResponses : ActivityLoadAnswered(i, r)
    \/ \E i \in 1..MaxOps, r \in StatusResponses : IntegrationsLoadAnswered(i, r)

SpecRead == InitSync /\ [][NextRead]_vars

\* what localStorage may hold under the mode key when the page loads
StoredModes == {"personal", "workspace", "Workspace", "", "null"}

InitMode ==
    /\ localStorage \in {EmptyFn} \cup { (MODE_STORAGE_KEY :> m) : m \in StoredModes }
    /\ sessionStorage = (USER_KEY :> "{\"token\":\"t1\"}")
    /\ calls = <<>>
    /\ network = <<>>
    /\ lastAuthCall = AuthCall("none", FALSE, NoUser)
    /\ location = "/chatbot"
    /\ PageInit
    /\ MoreInit

\* the mode and the view whose load follows it
NextMode ==
    \/ \E m \in AppMode : setMode(m)
    \/ Reload
    \/ OpenActivityLog
    \/ OpenChat
    \/ \E i \in 1..MaxOps, r \in ActivityResponses : ActivityLoadAnswered(i, r)

SpecMode == InitMode /\ [][NextMode]_vars

\* IntegrationsPage: its load on mount and the disconnects of its cards,
\* each call with every answer of the service
NextIntegrations ==
    \/ OpenIntegrations
    \/ \E i \in 1..MaxOps, r \in StatusResponses : IntegrationsLoadAnswered(i, r)
    \/ \E service \in Services : handleDisconnect(service)
    \/ \E i \in 1..MaxOps, r \in DisconnectResponses : DisconnectAnswered(i, r)
    \/ \E i \in 1..MaxOps, r \in StatusResponses : DisconnectReloaded(i, r)
    \/ \E i \in 1..MaxOps : SuccessTimeout(i)
    \/ Reload

SpecIntegrations == InitSync /\ [][NextIntegrations]_vars

\* both Apps, with the bypass on and off, under every report of useAuth();
\* the browser opens the application at "/"
InitRoute ==
    /\ localStorage = EmptyFn
    /\ sessionStorage = (USER_KEY :> "{\"token\":\"t1\"}")
    /\ calls = <<>>
    /\ network = <<>>
    /\ lastAuthCall = AuthCall("none", FALSE, NoUser)
    /\ PageInit
    /\ success = JNull
    /\ bypassLogin \in BOOLEAN
    /\ authProvider \in BOOLEAN
    /\ auth \in AuthReports(authProvider)
    /\ location = Outcome("/").path
    /\ shown = Outcome("/").shown
    /\ projectId = NoProject
    /\ projectData = JNull
    /\ projectError = JNull
    /\ projectLoading = TRUE

NextRoute == \E path \in Paths : Visit(path)

SpecRoute == InitRoute /\ [][NextRoute]_vars

\* ProjectDetailPage in the current App, for every route parameter and every
\* answer of the service
NextDetail ==
    \/ \E p \in ProjectIds \cup {NoProject} : OpenProject(p)
    \/ \E p \in ProjectIds \cup {NoProject} : ChangeProject(p)
    \/ \E i \in 1..MaxOps : \E p \in ProjectIds : \E r \in ProjectResponses(p) :
           ProjectLoadAnswered(i, r)
    \/ OpenDashboard
    \/ Reload

SpecDetail == InitSync /\ [][NextDetail]_vars

(***************************************************************************)
(* Properties                                                              *)
(***************************************************************************)
\* the credential a storage area holds: the truthy token of a payload that
\* parses, none (null) otherwise
held(store) ==
    IF USER_KEY \in DOMAIN store THEN tokenOf(store[USER_KEY]) ELSE JNull

\* the stored payload is there and fails to parse
Malformed(store) ==
    USER_KEY \in DOMAIN store /\ JSONParse(store[USER_KEY]).threw

Settled(i) == calls[i].pc # "fetch"
Answered(i) == Settled(i) /\ calls[i].response # NoResponse

RequestsOf(i) == { n \in 1..Len(network) : network[n].call = i }

C2_MalformedAsAbsent ==
    \A i \in 1..Len(calls) :
        /\ Malformed(localStorage) => calls[i].token = held(sessionStorage)
        /\ Malformed(sessionStorage) => calls[i].token = held(localStorage)

\* C3 (as claimed): after login(c, remember) the store chosen by remember holds
\* c and the token resolved next is c's.
C3_PersistThenResolve ==
    lastAuthCall.op = "login" =>
        LET c == JString(lastAuthCall.returned.token) IN
        /\ lastAuthCall.rememberMe => held(localStorage) = c
        /\ ~lastAuthCall.rememberMe => held(sessionStorage) = c
        /\ getAuthToken = c

\* C4 (as claimed): after logout neither store holds a credential, nothing
\* resolves, and a request issued now carries no Authorization header.
C4_ClearThenAbsent ==
    lastAuthCall.op = "logout" =>
        /\ held(localStorage) = JNull
        /\ held(sessionStorage) = JNull
        /\ getAuthToken = JNull
        /\ "Authorization" \notin DOMAIN RequestHeaders(EmptyFn, getAuthToken)

\* C5 (as claimed): the latest login wins: the store it did not write holds no
\* credential any more, and the resolved token is the latest login's.
C5_LatestPersistWins ==
    lastAuthCall.op = "login" =>
        /\ lastAuthCall.rememberMe => held(sessionStorage) = JNull
        /\ ~lastAuthCall.rememberMe => held(localStorage) = JNull
        /\ getAuthToken = JString(lastAuthCall.returned.token)

\* C6: every request sent carries Authorization exactly when a token resolves
\* at the call, its value is "Bearer " followed by that token, and every call
\* has sent its request whether or not a token resolved.
C6_AuthHeaderIffCredential ==
    /\ \A n \in 1..Len(network) :
         LET req == network[n]
             tok == getAuthToken
         IN  /\ "Authorization" \in DOMAIN req.headers <=> tok # JNull
             /\ tok # JNull => req.headers["Authorization"] = "Bearer " \o tok.str
             /\ calls[req.call].token = tok
    /\ \A i \in 1..Len(calls) : RequestsOf(i) # {}

\* a request went out with a bearer token, and it is the stored one
C6_Witness ==
    \E n \in 1..Len(network) :
        /\ "Authorization" \in DOMAIN network[n].headers
        /\ network[n].headers["Authorization"] = "Bearer t1"
        /\ held(localStorage) = JString("t1")

\* C7 (as claimed): every success status with an empty body gives the
\* "no value" result; every success status with a decodable body gives the
\* decoded value.
C7_EmptyBodyIsNoValue ==
    \A i \in 1..Len(calls) :
        (Answered(i) /\ ok(calls[i].response)) =>
            LET p == JSONParse(calls[i].response.body) IN
            /\ calls[i].response.body = "" =>
                   (calls[i].pc = "resolved" /\ calls[i].result = JUndefined)
            /\ ~p.threw => (calls[i].pc = "resolved" /\ calls[i].result = p.val)

\* C7 (amended): status 204 gives the "no value" result, which no decoded
\* value equals; another success status with a decodable body gives the decoded
\* value; another success status with an empty body is a failure.
C7_NoContentIsNoValue ==
    \A i \in 1..Len(calls) :
        (Answered(i) /\ ok(calls[i].response)) =>
            LET p == JSONParse(calls[i].response.body) IN
            /\ calls[i].response.status = 204 =>
                   (calls[i].pc = "resolved" /\ calls[i].result = JUndefined)
            /\ (calls[i].response.status # 204 /\ ~p.threw) =>
                   /\ calls[i].pc = "resolved"
                   /\ calls[i].result = p.val
                   /\ calls[i].result # JUndefined
            /\ (calls[i].response.status # 204 /\ calls[i].response.body = "") =>
                   calls[i].pc = "rejected"

\* a 204 resolved to "no value" next to a 200 that resolved to its body
C7_Witness ==
    \E i, j \in 1..Len(calls) :
        /\ calls[i].response.status = 204
        /\ calls[i].pc = "resolved" /\ calls[i].result = JUndefined
        /\ calls[j].response.status = 200
        /\ calls[j].pc = "resolved" /\ calls[j].result.type = "object"

\* C8 (as claimed): a non-success response is reported with the body's detail
\* as message and the body's error_code as code when it has one; an
\* unparseable body is reported with the message made from the status.
C8_FailureCarriesMessageAndCode ==
    \A i \in 1..Len(calls) :
        (Answered(i) /\ ~ok(calls[i].response)) =>
            LET p == JSONParse(calls[i].response.body) IN
            /\ calls[i].pc = "rejected"
            /\ (~p.threw /\ Prop(p.val, "detail") # JUndefined) =>
                   calls[i].error.message = Prop(p.val, "detail").str
            /\ (~p.threw /\ Prop(p.val, "error_code") # JUndefined) =>
                   calls[i].error.code = Prop(p.val, "error_code")
            /\ p.threw =>
                   calls[i].error.message =
                       "Request failed with status " \o ToString(calls[i].response.status)

\* the fields of the value each caller's return type declares
ExpectedFields(caller) ==
    IF caller = "getUserConversations" THEN {"conversations", "total"} ELSE {}

MatchesShape(caller, v) ==
    v.type = "object" /\ ExpectedFields(caller) \subseteq DOMAIN v.fields

\* C9 (as claimed): a settled call is a success or a failure; an unreachable
\* transport, a non-2xx status, and a 2xx body that does not parse or does not
\* have the expected shape are all failures.
C9_FailuresConverge ==
    \A i \in 1..Len(calls) :
        Settled(i) =>
            LET resp == calls[i].response
                p    == JSONParse(resp.body)
            IN  /\ calls[i].pc \in {"resolved", "rejected"}
                /\ calls[i].pc = "rejected" <=> calls[i].error # NoError
                /\ resp = NoResponse => calls[i].pc = "rejected"
                /\ (resp # NoResponse /\ ~ok(resp)) => calls[i].pc = "rejected"
                /\ (ok(resp) /\ resp.status # 204
                      /\ (p.threw \/ ~MatchesShape(calls[i].caller, p.val))) =>
                       calls[i].pc = "rejected"

\* C10: every call has handed exactly one request to the transport, and its
\* outcome has been delivered once if it has settled and not at all before.
C10_NoRetry ==
    \A i \in 1..Len(calls) :
        /\ Cardinality(RequestsOf(i)) = 1
        /\ calls[i].settled = IF Settled(i) THEN 1 ELSE 0

\* a call failed after one request, and was reported once
C10_Witness ==
    \E i \in 1..Len(calls) :
        /\ calls[i].pc = "rejected"
        /\ calls[i].settled = 1
        /\ Cardinality(RequestsOf(i)) = 1

(***************************************************************************)
(* Properties of the conversation synchronizer and the loading views       *)
(***************************************************************************)
\* the requests operation `i` has handed to the transport, in order
CallsFor(net, i) == SelectSeq(net, LAMBDA q : q.call = i)

Url(endpoint) == API_BASE_URL \o endpoint

IsCreateCall(q) ==
    /\ q.url = Url("/api/conversations") /\ q.method = "POST"
    /\ Prop(q.body, "title") = JUndefined

IsChatCall(q, text, chatMode, k) ==
    /\ q.url = Url("/api/chat") /\ q.method = "POST"
    /\ q.body = JObject(("message" :> JString(text)) @@ ("mode" :> JString(chatMode))
                        @@ ("conversation_id" :> JString(ToString(k))))

\* the id in the body of a create answer
CreatedId(response) == NumberOf(Prop(JSONParse(response.body).val, "id"))

\* C11: a send started with no active conversation first issues a create call
\* without a title and nothing else; the chat call of that send goes out only
\* in the step in which the create call completes successfully, and it carries
\* the id the create call returned and the mode that was current when the send
\* started; when the create call fails no chat call is made.
C11_CreateThenChat ==
    [][\A i \in DOMAIN ops' :
          LET before == CallsFor(network, i)
              after  == CallsFor(network', i)
          IN  ops'[i].kind = "send" =>
                /\ (i \notin DOMAIN ops /\ activeId = 0) =>
                       /\ Len(after) = 1 /\ IsCreateCall(after[1])
                       /\ ops'[i].mode = mode
                /\ (i \in DOMAIN ops /\ ops[i].pc = "create" /\ ops'[i].pc # "create") =>
                       IF Failed(ops'[i].response)
                       THEN after = before /\ ops'[i].pc = "failed"
                       ELSE /\ Len(after) = 2
                            /\ IsChatCall(after[2], ops[i].text, ops[i].mode,
                                          CreatedId(ops'[i].response))
                /\ (i \in DOMAIN ops /\ after # before) =>
                       ops[i].pc = "create" /\ ~Failed(ops'[i].response)
      ]_vars

\* a send without an active conversation has created conversation 2 and sent
\* its chat call, after the mode was changed under it
C11_Witness ==
    \E i \in DOMAIN ops :
        /\ ops[i].kind = "send" /\ ops[i].pc = "chat" /\ ops[i].conv = 2
        /\ Len(CallsFor(network, i)) = 2
        /\ IsCreateCall(CallsFor(network, i)[1])
        /\ ops[i].mode # mode

\* the id in the body of a chat answer
ChatId(response) == NumberFromString(Prop(JSONParse(response.body).val, "conversation_id"))

\* the chat call of send `i` is answered successfully in this step
ChatSucceeds(i) ==
    /\ i \in DOMAIN ops /\ ops[i].kind = "send" /\ ops[i].pc = "chat"
    /\ ops'[i].pc # "chat" /\ ~Failed(ops'[i].response)

OnConversation(msgs, c) == SelectSeq(msgs, LAMBDA m : m.conv = c)
OfSend(msgs, i) == SelectSeq(msgs, LAMBDA m : m.lid = i)

\* the two messages of a completed exchange of send `i` on conversation `k`
Exchange(i, k) ==
    <<Msg(i, k, "user", "sent", ops[i].text, 0), Msg(i, k, "assistant", "sent", "hi", 0)>>

\* C12: when the create call of a send answered id k and its chat call is
\* answered successfully with the same id k, the local list holds exactly one
\* conversation k, the messages of the send are exactly the user message
\* followed by the assistant message, both on k and both sent, and they are
\* all of k's messages when k held no other message before.
C12_OneConversationTwoMessages ==
    [][\A i \in DOMAIN ops :
          LET k == ops[i].conv IN
          (/\ ChatSucceeds(i)
           /\ Len(CallsFor(network, i)) = 2
           /\ ChatId(ops'[i].response) = k) =>
              /\ Cardinality({n \in DOMAIN conversations' : conversations'[n].id = k}) = 1
              /\ OfSend(messages', i) = Exchange(i, k)
              /\ (\A n \in DOMAIN messages : messages[n].lid = i \/ messages[n].conv # k)
                     => OnConversation(messages', k) = Exchange(i, k)
      ]_vars

\* a send created conversation 1, was answered on conversation 1, and the two
\* messages of the exchange are what conversation 1 holds
C12_Witness ==
    \E i \in DOMAIN ops :
        /\ ops[i].kind = "send" /\ ops[i].pc = "done"
        /\ Len(CallsFor(network, i)) = 2
        /\ IsChatCall(CallsFor(network, i)[2], ops[i].text, ops[i].mode, 1)
        /\ ChatId(ops[i].response) = 1
        /\ OnConversation(messages, 1) = Exchange(i, 1)
        /\ Ids(conversations) = {1}

\* C13: when the chat call of a send is answered successfully with an id that
\* differs from the id it was sent with, the active id becomes the answered
\* id, the user and assistant message of the send are both on the answered id,
\* and no message of the send stays on the id that was sent.
C13_ServerIdWins ==
    [][\A i \in DOMAIN ops :
          LET sent == ops[i].conv
              k    == ChatId(ops'[i].response)
          IN  (ChatSucceeds(i) /\ k # sent) =>
                 /\ activeId' = k
                 /\ OfSend(messages', i) = Exchange(i, k)
                 /\ \A n \in DOMAIN messages' :
                        messages'[n].lid = i => messages'[n].conv # sent
      ]_vars

\* a chat call sent with conversation 1 was answered with conversation 2
C13_Witness ==
    \E i \in DOMAIN ops :
        /\ ops[i].kind = "send" /\ ops[i].pc = "done"
        /\ \E n \in DOMAIN network :
              /\ network[n].call = i
              /\ IsChatCall(network[n], ops[i].text, ops[i].mode, 1)
        /\ ChatId(ops[i].response) = 2
        /\ activeId = 2
        /\ OfSend(messages, i) = Exchange(i, 2)

\* operation `i` of the given kind is answered in this step
Settles(i, kind) ==
    /\ i \in DOMAIN ops /\ ops[i].kind = kind
    /\ ops[i].pc \in {"wait", "create", "chat"}
    /\ ops'[i].response # ops[i].response

\* operation `i` of the given kind is started in this step
Starts(i, kind) == i \notin DOMAIN ops /\ i \in DOMAIN ops' /\ ops'[i].kind = kind

\* the message of the error apiRequest throws for each failing delivery
ErrorText(response) ==
    IF response = Unreachable THEN "Failed to fetch"
    ELSE IF response.body = "{\"detail\":\"Not found\"}" THEN "Not found"
    ELSE "Request failed with status " \o ToString(response.status)

\* C14: when the chat call of a send fails, the user message shown for the
\* send is still there with status failed, the send has added no assistant
\* message, and the error is handed to the caller.
C14_FailedSendIsFlagged ==
    [][\A i \in DOMAIN ops :
          (Settles(i, "send") /\ ops[i].pc = "chat" /\ Failed(ops'[i].response)) =>
             /\ OfSend(messages', i) = <<Msg(i, ops[i].conv, "user", "failed", ops[i].text, 0)>>
             /\ Len(messages') = Len(messages)
             /\ ops'[i].pc = "failed"
             /\ lastError' = ErrorText(ops'[i].response)
      ]_vars

\* a chat call was answered 404 while a loadMessages of the same conversation
\* had delivered the history: the user message is there, flagged failed
C14_Witness ==
    \E i, j \in DOMAIN ops :
        /\ ops[i].kind = "send" /\ ops[i].pc = "failed"
        /\ Len(CallsFor(network, i)) = 2
        /\ ops[i].response.status = 404
        /\ ops[j].kind = "load" /\ ops[j].pc = "done" /\ ops[j].conv = ops[i].conv
        /\ ops[j].response.body = HistoryText(ops[j].conv)
        /\ OfSend(messages, i) = <<Msg(i, ops[i].conv, "user", "failed", ops[i].text, 0)>>
        /\ lastError = "Not found"

IsListed(c, list) == c \in Ids(list)

\* the titles of the listed conversations other than `c` are the same in both lists
OtherTitlesSame(c, old, new) ==
    \A d \in (Ids(old) \cup Ids(new)) \ {c} :
        /\ d \in Ids(old) /\ d \in Ids(new)
        /\ TitleOf(old, d) = TitleOf(new, d)

\* C15: renameConversation shows the new title at once, before the remote call
\* has completed; when the remote call fails the conversation's title is
\* exactly the title it had before the rename; neither step changes the title
\* of any other conversation.
C15_RenameRollsBack ==
    [][\A i \in DOMAIN ops' :
          LET c == ops'[i].conv IN
          /\ Starts(i, "rename") =>
                /\ ops'[i].pc = "wait"
                /\ TitleOf(conversations', c) = ops'[i].title
                /\ ops'[i].prior = TitleOf(conversations, c)
                /\ OtherTitlesSame(c, conversations, conversations')
          /\ (Settles(i, "rename") /\ Failed(ops'[i].response)) =>
                /\ IsListed(c, conversations) => TitleOf(conversations', c) = ops[i].prior
                /\ OtherTitlesSame(c, conversations, conversations')
                /\ Ids(conversations') = Ids(conversations)
      ]_vars

\* a rename of conversation 1 from "A" to "B" failed and the title is "A" again
C15_Witness ==
    \E i \in DOMAIN ops :
        /\ ops[i].kind = "rename" /\ ops[i].pc = "failed" /\ ops[i].conv = 1
        /\ ops[i].title = "B" /\ ops[i].prior = "A"
        /\ IsListed(1, conversations) /\ TitleOf(conversations, 1) = "A"

\* C16: starting deleteConversation changes neither the list nor the
\* selection, so the entry stays listed while the call is in flight; the entry
\* goes in the step the remote call confirms; when the remote call fails the
\* list and the selection are as they were; and no step takes an entry off the
\* list except a confirmed delete of it or a delivered list.
C16_DeleteAfterConfirm ==
    [][/\ \A i \in DOMAIN ops' :
            /\ Starts(i, "delete") =>
                  /\ conversations' = conversations /\ activeId' = activeId
                  /\ IsListed(ops'[i].conv, conversations')
            /\ (Settles(i, "delete") /\ Failed(ops'[i].response)) =>
                  conversations' = conversations /\ activeId' = activeId
            /\ (Settles(i, "delete") /\ ~Failed(ops'[i].response)) =>
                  conversations' = Remove(conversations, ops[i].conv)
       /\ \A c \in Ids(conversations) \ Ids(conversations') :
            \E i \in DOMAIN ops :
               \/ Settles(i, "delete") /\ ops[i].conv = c /\ ~Failed(ops'[i].response)
               \/ Settles(i, "list") /\ ~Failed(ops'[i].response)
      ]_vars

\* a delete of the active conversation failed: it is still listed and active
C16_Witness ==
    \E i \in DOMAIN ops :
        /\ ops[i].kind = "delete" /\ ops[i].pc = "failed"
        /\ Failed(ops[i].response)
        /\ activeId = ops[i].conv
        /\ IsListed(ops[i].conv, conversations)

Outstanding(i) == ops[i].kind = "send" /\ ops[i].pc \in {"create", "chat"}

\* C18: in every reachable state, so after a loadMessages answer has arrived at
\* any point of an outstanding send, the pending user message of the send is
\* in the local sequence of its conversation, once.
C18_PendingSurvivesLoad ==
    \A i \in DOMAIN ops :
        Outstanding(i) =>
            OfSend(messages, i) = <<Msg(i, ops[i].conv, "user", "pending", ops[i].text, 0)>>

\* the history of a conversation was delivered while a send to it was waiting
\* for its chat answer: the history and the pending message are both there
C18_Witness ==
    \E i, j \in DOMAIN ops :
        /\ Outstanding(i) /\ ops[i].pc = "chat"
        /\ ops[j].kind = "load" /\ ops[j].pc = "done" /\ ops[j].conv = ops[i].conv
        /\ ops[j].response.body = HistoryText(ops[j].conv)
        /\ OnConversation(messages, ops[i].conv) =
               Loaded(ops[i].conv, HistoryValue(ops[i].conv).items)
                   \o <<Msg(i, ops[i].conv, "user", "pending", ops[i].text, 0)>>

ReadShape(kind, v) ==
    IF kind = "list" THEN Prop(v, "conversations").type = "array" ELSE v.type = "array"

\* the read failed: nothing was delivered, the status is not 2xx, or the 2xx
\* body does not decode to the expected shape
ReadFailed(kind, response) ==
    \/ Failed(response)
    \/ LET p == JSONParse(response.body) IN p.threw \/ ~ReadShape(kind, p.val)

\* C20: the step in which a read fails (list conversations, load messages, the
\* activity-log load, the integration-status load) leaves the data that read
\* loads exactly as it was.
C20_FailedReadKeepsData ==
    [][\A i \in DOMAIN ops :
          (/\ ops[i].pc = "wait" /\ ops'[i].response # ops[i].response
           /\ ReadFailed(ops[i].kind, ops'[i].response)) =>
             CASE ops[i].kind = "list"         -> conversations' = conversations
               [] ops[i].kind = "load"         -> messages' = messages
               [] ops[i].kind = "activity"     -> entries' = entries
               [] ops[i].kind = "integrations" -> integrations' = integrations
               [] OTHER                        -> TRUE
      ]_vars

(***************************************************************************)
(* Properties of ModeContext and the views that follow the mode            *)
(***************************************************************************)
\* what is persisted under the mode key, "" when the key is unset
PersistedMode(store) ==
    IF MODE_STORAGE_KEY \in DOMAIN store THEN store[MODE_STORAGE_KEY] ELSE ""

\* C21: the held mode is one of the two members; it is the stored value when
\* that value is exactly "personal" or "workspace", and "personal" for every
\* other stored content and for an unset key.
C21_DefensiveDecode ==
    /\ mode \in AppMode
    /\ IF /\ MODE_STORAGE_KEY \in DOMAIN localStorage
          /\ localStorage[MODE_STORAGE_KEY] \in {"personal", "workspace"}
       THEN mode = localStorage[MODE_STORAGE_KEY]
       ELSE mode = "personal"

\* the page runs over a stored "Workspace", which is no member: the mode is
\* personal, also for the loads started and abandoned under it
C21_Witness ==
    /\ PersistedMode(localStorage) = "Workspace"
    /\ mode = "personal"
    /\ \E i \in DOMAIN ops : ops[i].pc = "stale"
    /\ location = "/ai-activity"

\* C22: every step that changes the held mode or what is persisted leaves the
\* persisted value equal to the held mode; after every step constructing
\* ModeContext again from storage gives the held mode; and the step hands
\* nothing to the transport, except that a mounted AIActivityLog answers a
\* changed mode with its own load.
C22_SetModePersists ==
    [][/\ (mode' # mode \/ localStorage' # localStorage) =>
             /\ PersistedMode(localStorage') = mode'
             /\ \/ network' = network
                \/ /\ location = "/ai-activity" /\ mode' # mode
                   /\ Len(network') = Len(network) + 1
                   /\ network'[Len(network')].url = Url("/api/activity-log")
       /\ getStoredMode' = mode'
      ]_vars

\* the mode was set to workspace after a load under personal, and is persisted
C22_Witness ==
    /\ mode = "workspace"
    /\ PersistedMode(localStorage) = "workspace"
    /\ \E i \in DOMAIN ops : ops[i].mode = "personal"
    /\ location = "/chatbot"

\* C23: a step that changes the mode leaves every conversation and every
\* message of the client model as it was: ids, titles, contents, order and the
\* conversation each message is on.
C23_ModeSwitchKeepsData ==
    [][mode' # mode => conversations' = conversations /\ messages' = messages]_vars

\* an exchange made under workspace is still there after the switch back to
\* personal, next to a send made under personal
C23_Witness ==
    \E i, j \in DOMAIN ops :
        /\ ops[i].kind = "send" /\ ops[i].pc = "done" /\ ops[i].mode = "workspace"
        /\ ops[j].kind = "send" /\ ops[j].mode = "personal"
        /\ mode = "personal"
        /\ PersistedMode(localStorage) = "personal"
        /\ OfSend(messages, i) = Exchange(i, ops[i].conv)
        /\ IsListed(ops[i].conv, conversations)

\* C24: a load of the activity view enters Loading when it starts (the flag
\* is set); the step in which its response or error arrives takes it to Loaded
\* or to Failed and clears the flag on both paths; and every change of the
\* mode under the mounted view starts a new load and sets the flag again.
C24_LoadingLifecycle ==
    [][/\ \A i \in DOMAIN ops' :
            /\ Starts(i, "activity") => ops'[i].pc = "wait" /\ loading' = TRUE
            /\ (Settles(i, "activity") /\ ops[i].pc = "wait") =>
                  /\ loading' = FALSE
                  /\ ops'[i].pc = IF Failed(ops'[i].response) THEN "failed" ELSE "done"
       /\ (mode' # mode /\ location = "/ai-activity") =>
             /\ Starts(Len(ops) + 1, "activity")
             /\ network'[Len(network')].url = Url("/api/activity-log")
      ]_vars

\* the first load failed and left Loading; the mode was switched, and the load
\* that switch started has arrived as well
C24_Witness ==
    /\ Len(ops) = 2
    /\ ops[1].kind = "activity" /\ ops[1].pc = "failed"
    /\ ops[2].kind = "activity" /\ ops[2].pc = "done" /\ ops[2].mode # ops[1].mode
    /\ loading = FALSE
    /\ location = "/ai-activity"

\* the activity loads the mounted view is waiting for
InFlightLoads == { i \in DOMAIN ops : ops[i].kind = "activity" /\ ops[i].pc = "wait" }

\* the activity load issued last
LatestLoad == CHOOSE i \in DOMAIN ops :
    ops[i].kind = "activity" /\ \A j \in DOMAIN ops : ops[j].kind = "activity" => j <= i

\* C29: in the mounted activity view the loading flag is true as long as a
\* load is in flight, and once no load is in flight and the load issued last
\* was answered with a list, the entries shown are that list.
C29_LatestLoadWins ==
    (location = "/ai-activity" /\ \E i \in DOMAIN ops : ops[i].kind = "activity") =>
        /\ InFlightLoads # {} => loading = TRUE
        /\ (/\ InFlightLoads = {}
            /\ ops[LatestLoad].pc = "done"
            /\ ~ReadFailed("activity", ops[LatestLoad].response)) =>
               entries = JSONParse(ops[LatestLoad].response.body).val

ProjectMounted == location = ProjectPath(projectId)

ProjectLoads == { i \in DOMAIN ops : ops[i].kind = "project" }

ProjectInFlight == { i \in ProjectLoads : ops[i].pc = "wait" }

\* what the page renders: the spinner, the error view or the project
ProjectView ==
    IF projectLoading THEN "spinner"
    ELSE IF Truthy(projectError) \/ ~Truthy(projectData) THEN "error"
    ELSE "project"

C28_ShowsCurrentProject ==
    \A i \in ProjectLoads :
        (/\ ProjectMounted /\ projectId # NoProject
         /\ ProjectInFlight = {}
         /\ i = Len(ops) /\ ops[i].text = projectId /\ ops[i].pc = "done")
        => /\ projectError = JNull
           /\ projectData = ProjectValue(projectId)
           /\ ProjectView = "project"

(***************************************************************************)
(* Properties of the routes                                                *)
(***************************************************************************)
RendersAt(path) == [path |-> path, shown |-> "page"]

Authenticated == ~auth.isLoading /\ auth.isAuthenticated

\* with the bypass the landing page redirects to /chatbot and every
\* protected route is rendered, whatever useAuth() reports
BypassOpensAll ==
    /\ Outcome("/") = RendersAt("/chatbot")
    /\ \A p \in ProtectedPaths : Outcome(p) = RendersAt(p)
    /\ location # "/" /\ shown = "page"

Disconnects == { i \in DOMAIN ops : ops[i].kind = "disconnect" }

StatusUrl == Url(getIntegrationStatus.endpoint)

\* the disconnect calls and the status reloads a disconnect has issued
DisconnectCalls(net, i) == SelectSeq(CallsFor(net, i), LAMBDA q : q.url # StatusUrl)
StatusCalls(net, i)     == SelectSeq(CallsFor(net, i), LAMBDA q : q.url = StatusUrl)

\* the services a disconnect of `service` has to call, in order
ExpectedOrder(service) ==
    IF service \in {"gmail", "calendar", "docs", "sheets", "drive", "forms"}
    THEN <<"gmail", "calendar", "docs", "sheets", "drive", "forms">>
    ELSE <<service>>

\* the request a step has sent, if it has sent one
NoCall == [call |-> 0, url |-> ""]
NewCall ==
    IF Len(network') > Len(network)
    THEN [call |-> network'[Len(network')].call, url |-> network'[Len(network')].url]
    ELSE NoCall

\* C30: a disconnect of a Google service calls disconnectService for gmail,
\* calendar, docs, sheets, drive, forms, one at a time in that order, and
\* one of another service makes exactly one call; only after all calls have
\* succeeded the status is reloaded and success reported; when a call
\* fails, no further call is issued, the status is not reloaded and the
\* error is shown
C30_DisconnectAllOrStop ==
    [][/\ network' # network =>
             (Len(network') = Len(network) + 1 /\ SubSeq(network', 1, Len(network)) = network)
       /\ (success' # success /\ success' # JNull) =>
             (NewCall.url = StatusUrl /\ NewCall.call \in Disconnects)
       /\ \A i \in { n \in DOMAIN ops' : ops'[n].kind = "disconnect" } :
            LET started  == i \notin DOMAIN ops
                r        == ops'[i].response
                answered == ~started /\ ops[i].pc = "wait" /\ ~Failed(r)
                order    == ExpectedOrder(ops'[i].text)
            IN
            \* in order, one at a time: a further call follows a success
            /\ (NewCall.call = i /\ NewCall.url # StatusUrl) =>
                  LET n == Len(DisconnectCalls(network', i)) IN
                  /\ started \/ answered
                  /\ started <=> n = 1
                  /\ n <= Len(order)
                  /\ NewCall.url = Url(disconnectService(order[n]).endpoint)
            \* the reload and the success message come after the last success
            /\ (NewCall.call = i /\ NewCall.url = StatusUrl) =>
                  /\ answered
                  /\ Len(DisconnectCalls(network, i)) = Len(order)
                  /\ StatusCalls(network, i) = <<>>
                  /\ success' = JString(ServiceName(ops[i].text) \o " disconnected.")
            \* a failed call ends the disconnect with the error on screen
            /\ (~started /\ ops[i].pc = "wait" /\ ops'[i].pc \notin {"wait", "stale"}
                  /\ Failed(r)) =>
                  /\ ops'[i].pc = "failed"
                  /\ network' = network
                  /\ loadError' = JString(ErrorText(r))
                  /\ success' = success
            /\ (~started /\ ops[i].pc = "failed") =>
                  (ops'[i].pc = "failed" /\ NewCall.call # i)
      ]_vars

\* the third call of a disconnect of Gmail has failed: three calls went
\* out, no status reload, the error is on screen
C30_Witness ==
    \E i \in Disconnects :
        /\ ops[i].text = "gmail" /\ ops[i].pc = "failed" /\ ops[i].conv = 3
        /\ Len(DisconnectCalls(network, i)) = 3
        /\ StatusCalls(network, i) = <<>>
        /\ loadError = JString("Failed to fetch")

====
